---------------------------- MODULE Spec2Model ----------------------------
(***************************************************************************)
(* A model of bioimageit_omero/data_omero.py: the OMERO metadata service   *)
(* of BioImageIT.  The remote OMERO store (projects, datasets, images and  *)
(* their annotations), the local workspace directory and the containers    *)
(* handed to and returned by the service are the state; every method of    *)
(* OmeroMetadataService that the verified properties are about is one      *)
(* action (create_run, whose intermediate states matter, is three).        *)
(***************************************************************************)
EXTENDS Integers, Sequences, FiniteSets, TLC

VARIABLES
    projects,   \* remote Project objects:  id -> [name, anns]
    datasets,   \* remote Dataset objects:  id -> [name, project, anns]
    images,     \* remote Image objects:    id -> [name, dataset, anns]
    nextId,     \* the id the remote store gives to the next saved object
    ws,         \* the workspace directory: file path -> file content
    call,       \* the last call of the service that ended: op, arg, out, remote traffic
    hist,       \* history: what the last successful write put at a path / on an image
    proc,       \* the create_run call in progress: its position and its local variables
    given,      \* the container the caller holds and passes to the codec
    adapter,    \* the service instance: its life and the remote sessions open for it
    builder,    \* the service builder: the instance it holds, the instances it made
    unlinked    \* remote annotations that are saved and linked to no object, in order

vars == <<projects, datasets, images, nextId, ws, call, hist, proc, given, adapter, builder,
          unlinked>>

(***************************************************************************)
(* Bounds of the model.                                                    *)
(***************************************************************************)
MaxLen == 2        \* longest input / parameter list of a container
MaxObjects == 2    \* objects (projects, images, run attachments) created per behaviour

(***************************************************************************)
(* Python values.  Every value carries its type, as in Python: a str, an   *)
(* int, None, a list, or a dict (insertion-ordered <<key, value>> pairs).   *)
(* An exception raised instead of a value is a value of kind "exc".        *)
(***************************************************************************)
PyStr(s) == [k |-> "str", s |-> s]
PyInt(n) == [k |-> "int", n |-> n]
PyNone == [k |-> "none"]
PyBool(b) == [k |-> "bool", b |-> b]
PyList(items) == [k |-> "list", items |-> items]
PyDict(pairs) == [k |-> "dict", pairs |-> pairs]
Exc(type) == [k |-> "exc", type |-> type]
IsExc(v) == v.k = "exc"

\* key in d
HasKey(d, key) == \E i \in 1..Len(d.pairs) : d.pairs[i][1] = key

\* d[key] = v on a dict value: replaces the value of an existing key, else appends
DictSet(d, key, v) ==
    IF HasKey(d, key)
    THEN PyDict([i \in 1..Len(d.pairs) |->
                    IF d.pairs[i][1] = key THEN <<key, v>> ELSE d.pairs[i]])
    ELSE PyDict(Append(d.pairs, <<key, v>>))

\* v[key] with a str key, as Python evaluates it: KeyError on a dict without
\* the key, TypeError on anything that is not a dict; an exception raised
\* while evaluating v propagates.
Subscript(v, key) ==
    IF IsExc(v) THEN v
    ELSE IF v.k = "dict"
         THEN IF HasKey(v, key)
              THEN LET i == CHOOSE j \in 1..Len(v.pairs) : v.pairs[j][1] = key
                   IN  v.pairs[i][2]
              ELSE Exc("KeyError")
         ELSE Exc("TypeError")

\* The items a for loop over v visits, as a list: the items of a list, the keys of a
\* dict; a non-empty str yields str items (every one of them fails on a
\* subscript like the characters do); None and int are not iterable.
Iterate(v) ==
    IF IsExc(v) THEN v
    ELSE CASE v.k = "list" -> v
           [] v.k = "dict" -> PyList([i \in 1..Len(v.pairs) |-> PyStr(v.pairs[i][1])])
           [] v.k = "str"  -> IF v.s = "" THEN PyList(<<>>) ELSE PyList(<<v>>)
           [] OTHER        -> Exc("TypeError")

\* The first exception of a sequence of evaluated expressions, in evaluation
\* order, or PyNone when none of them raised.
FirstExc(vs) ==
    IF \E i \in 1..Len(vs) : IsExc(vs[i])
    THEN vs[CHOOSE i \in 1..Len(vs) :
                /\ IsExc(vs[i])
                /\ \A j \in 1..(i - 1) : ~IsExc(vs[j])]
    ELSE PyNone

(***************************************************************************)
(* JSON text, as the sequence of its tokens (white space carries nothing). *)
(***************************************************************************)
Tok(t) == [t |-> t]
TokString(s) == [t |-> "string", s |-> s]
TokNumber(n) == [t |-> "number", n |-> n]

RECURSIVE JsonDump(_)
RECURSIVE JsonDumpItems(_, _)
RECURSIVE JsonDumpPairs(_, _)
\* json.dump(value): the text of a Python value
JsonDump(v) ==
    CASE v.k = "str"  -> <<TokString(v.s)>>
      [] v.k = "int"  -> <<TokNumber(v.n)>>
      [] v.k = "none" -> <<Tok("null")>>
      [] v.k = "list" -> <<Tok("[")>> \o JsonDumpItems(v.items, 1) \o <<Tok("]")>>
      [] v.k = "dict" -> <<Tok("{")>> \o JsonDumpPairs(v.pairs, 1) \o <<Tok("}")>>
JsonDumpItems(items, i) ==
    IF i > Len(items) THEN <<>>
    ELSE (IF i > 1 THEN <<Tok(",")>> ELSE <<>>)
         \o JsonDump(items[i]) \o JsonDumpItems(items, i + 1)
JsonDumpPairs(pairs, i) ==
    IF i > Len(pairs) THEN <<>>
    ELSE (IF i > 1 THEN <<Tok(",")>> ELSE <<>>)
         \o <<TokString(pairs[i][1]), Tok(":")>>
         \o JsonDump(pairs[i][2]) \o JsonDumpPairs(pairs, i + 1)

Parsed(v, i) == [ok |-> TRUE, v |-> v, i |-> i]
ParseFail == [ok |-> FALSE]
TokAt(toks, i) == IF i <= Len(toks) THEN toks[i] ELSE Tok("eof")

RECURSIVE JsonParseValue(_, _)
RECURSIVE JsonParseElements(_, _, _)
RECURSIVE JsonParseMembers(_, _, _)
\* The JSON value that starts at token i, and the index after it
JsonParseValue(toks, i) ==
    LET tok == TokAt(toks, i)
    IN  CASE tok.t = "string" -> Parsed(PyStr(tok.s), i + 1)
          [] tok.t = "number" -> Parsed(PyInt(tok.n), i + 1)
          [] tok.t = "null"   -> Parsed(PyNone, i + 1)
          [] tok.t = "["      ->
                IF TokAt(toks, i + 1).t = "]"
                THEN Parsed(PyList(<<>>), i + 2)
                ELSE JsonParseElements(toks, i + 1, <<>>)
          [] tok.t = "{"      ->
                IF TokAt(toks, i + 1).t = "}"
                THEN Parsed(PyDict(<<>>), i + 2)
                ELSE JsonParseMembers(toks, i + 1, PyDict(<<>>))
          [] OTHER            -> ParseFail
JsonParseElements(toks, i, acc) ==
    LET r == JsonParseValue(toks, i)
    IN  IF ~r.ok THEN ParseFail
        ELSE CASE TokAt(toks, r.i).t = "," ->
                    JsonParseElements(toks, r.i + 1, Append(acc, r.v))
               [] TokAt(toks, r.i).t = "]" ->
                    Parsed(PyList(Append(acc, r.v)), r.i + 1)
               [] OTHER -> ParseFail
JsonParseMembers(toks, i, acc) ==
    IF TokAt(toks, i).t # "string" \/ TokAt(toks, i + 1).t # ":" THEN ParseFail
    ELSE LET r == JsonParseValue(toks, i + 2)
         IN  IF ~r.ok THEN ParseFail
             ELSE CASE TokAt(toks, r.i).t = "," ->
                         JsonParseMembers(toks, r.i + 1, DictSet(acc, toks[i].s, r.v))
                    [] TokAt(toks, r.i).t = "}" ->
                         Parsed(DictSet(acc, toks[i].s, r.v), r.i + 1)
                    [] OTHER -> ParseFail

\* json.load(file): the Python value of a JSON text
JsonLoad(toks) ==
    LET r == JsonParseValue(toks, 1)
    IN  IF r.ok /\ r.i = Len(toks) + 1 THEN r.v ELSE Exc("JSONDecodeError")

\* _read_json(md_uri): None for an empty file
ReadJson(files, md_uri) ==
    IF md_uri \notin DOMAIN files THEN Exc("FileNotFoundError")
    ELSE IF Len(files[md_uri]) > 0 THEN JsonLoad(files[md_uri]) ELSE PyNone

\* _write_json(metadata, md_uri): the workspace after the write
WriteJson(files, metadata, md_uri) ==
    [p \in DOMAIN files \cup {md_uri} |->
        IF p = md_uri THEN JsonDump(metadata) ELSE files[p]]

\* os.remove(path) guarded by os.path.exists(path)
RemoveFile(files, path) == [p \in DOMAIN files \ {path} |-> files[p]]

(***************************************************************************)
(* Return values and the record of a call.                                 *)
(***************************************************************************)
Ret(v) == [k |-> "ret", v |-> v]
Returned(c) == c.out.k = "ret"
Raised(c, type) == c.out.k = "exc" /\ c.out.type = type
\* op(arg) ended with out, after `lookups` remote reads and `mutations`
\* remote writes
Call(op, arg, out, lookups, mutations) ==
    [op |-> op, arg |-> arg, out |-> out, lookups |-> lookups, mutations |-> mutations]
NoCall == Call("", PyNone, Ret(PyNone), 0, 0)
\* no create_run call is in progress
Idle == [pc |-> "idle"]

(***************************************************************************)
(* The service instance and its remote sessions.  A session is opened by   *)
(* the constructor (BlitzGateway.connect) or by main_import, which         *)
(* import_data calls (client.createSession).                               *)
(***************************************************************************)
ConstructionSession == [by |-> "__init__", n |-> 0]
\* the session main_import opens to import the image n
ImportSession(n) == [by |-> "main_import", n |-> n]
\* the instance after __init__ returned
Built == [life |-> "built", open |-> {ConstructionSession}]
\* the builder after OmeroMetadataServiceBuilder.__init__: it holds no instance
NoBuilder == [instance |-> PyNone, made |-> 0]

(***************************************************************************)
(* The run document codec: _write_run and _parse_run.                      *)
(* A Run container is a record uuid, md_uri, process_name, process_uri,    *)
(* processed_dataset (a container: md_uri, uuid), inputs (name, dataset,   *)
(* query, origin_output_name each) and parameters (name, value each).      *)
(***************************************************************************)
RunInputDoc(input_) ==
    PyDict(<< <<"name", input_.name>>, <<"dataset", input_.dataset>>,
              <<"query", input_.query>>,
              <<"origin_output_name", input_.origin_output_name>> >>)

RunParameterDoc(parameter) ==
    PyDict(<< <<"name", parameter.name>>, <<"value", parameter.value>> >>)

\* Mutation of WriteRunDoc: the dataset reference written with url and uuid swapped
WriteRunDoc_SwappedDataset(run) ==
    PyDict(<<
        <<"uuid", run.uuid>>,
        <<"process", PyDict(<< <<"name", run.process_name>>,
                               <<"url", run.process_uri>> >>)>>,
        <<"processed_dataset", PyDict(<< <<"uuid", run.processed_dataset.md_uri>>,
                                         <<"url", run.processed_dataset.uuid>> >>)>>,
        <<"inputs", PyList([i \in 1..Len(run.inputs) |-> RunInputDoc(run.inputs[i])])>>,
        <<"parameters", PyList([i \in 1..Len(run.parameters) |->
                                    RunParameterDoc(run.parameters[i])])>> >>)

\* The metadata dict _write_run builds from a Run
WriteRunDoc(run) ==
    PyDict(<<
        <<"uuid", run.uuid>>,
        <<"process", PyDict(<< <<"name", run.process_name>>,
                               <<"url", run.process_uri>> >>)>>,
        <<"processed_dataset", PyDict(<< <<"uuid", run.processed_dataset.uuid>>,
                                         <<"url", run.processed_dataset.md_uri>> >>)>>,
        <<"inputs", PyList([i \in 1..Len(run.inputs) |-> RunInputDoc(run.inputs[i])])>>,
        <<"parameters", PyList([i \in 1..Len(run.parameters) |->
                                    RunParameterDoc(run.parameters[i])])>> >>)

\* _write_run(run): the workspace after the document is written at run.md_uri
WriteRunFile(files, run) == WriteJson(files, WriteRunDoc(run), run.md_uri.s)

\* The subscripts _parse_run evaluates on one item of metadata['inputs']
ParseInputFields(input_) ==
    <<Subscript(input_, "name"), Subscript(input_, "dataset"),
      Subscript(input_, "query"), Subscript(input_, "origin_output_name")>>

\* The subscripts _parse_run evaluates on one item of metadata['parameters']
ParseParameterFields(parameter) ==
    <<Subscript(parameter, "name"), Subscript(parameter, "value")>>

\* The Run _parse_run builds from the parts of the document:
\* Ret(the Run) or the exception raised
ParseRunParts(md_uri, metadata, process, dataset, inputsIter, parametersIter) ==
    LET head == <<metadata,
                  Subscript(metadata, "uuid"),
                  Subscript(process, "name"),
                  Subscript(process, "url"),
                  Subscript(dataset, "url"),
                  Subscript(dataset, "uuid")>>
        inputErr == IF IsExc(inputsIter) THEN inputsIter
                    ELSE FirstExc([i \in 1..Len(inputsIter.items) |->
                                      FirstExc(ParseInputFields(inputsIter.items[i]))])
        parameterErr == IF IsExc(parametersIter) THEN parametersIter
                        ELSE FirstExc([i \in 1..Len(parametersIter.items) |->
                                          FirstExc(ParseParameterFields(
                                                       parametersIter.items[i]))])
        err == FirstExc(<<FirstExc(head), inputErr, parameterErr>>)
    IN  IF IsExc(err) THEN err
        ELSE Ret([uuid |-> head[2],
                  md_uri |-> PyStr(md_uri),
                  process_name |-> head[3],
                  process_uri |-> head[4],
                  processed_dataset |-> [md_uri |-> head[5], uuid |-> head[6]],
                  inputs |-> [i \in 1..Len(inputsIter.items) |->
                                LET f == ParseInputFields(inputsIter.items[i])
                                IN  [name |-> f[1], dataset |-> f[2], query |-> f[3],
                                     origin_output_name |-> f[4]]],
                  parameters |-> [i \in 1..Len(parametersIter.items) |->
                                    LET f == ParseParameterFields(parametersIter.items[i])
                                    IN  [name |-> f[1], value |-> f[2]]]])

\* The part of _parse_run that follows the read of the file
ParseRunDoc(md_uri, metadata) ==
    ParseRunParts(md_uri, metadata,
                  Subscript(metadata, "process"),
                  Subscript(metadata, "processed_dataset"),
                  Iterate(Subscript(metadata, "inputs")),
                  Iterate(Subscript(metadata, "parameters")))

\* _parse_run(md_uri): Ret(the Run read from the file) or the exception raised
ParseRun(files, md_uri) == ParseRunDoc(md_uri, ReadJson(files, md_uri))

(***************************************************************************)
(* File names and paths.                                                   *)
(***************************************************************************)
WorkspaceDir == "workspace"
\* os.path.join(dir, name)
PathJoin(dir, name) == dir \o "/" \o name

\* "run_" + str(run_id_count) + ".md.json"
RunFileName(run_id_count) == "run_" \o ToString(run_id_count) \o ".md.json"

ProcessedDataFileName == "processed_data.md.json"
ProcessedDataPath == PathJoin(WorkspaceDir, ProcessedDataFileName)

\* The strings that precede a suffix in the file names of the model
MaxRunIndex == MaxObjects + 3
NameStems ==
    {"run", "processed_data", "notes", "a", "b"} \cup {"run_" \o ToString(n) : n \in 1..MaxRunIndex}
NamePrefixes == {""} \cup NameStems \cup {stem \o "." : stem \in NameStems}
\* name.endswith(suffix)
EndsWith(name, suffix) == \E prefix \in NamePrefixes : name = prefix \o suffix

\* The local directory import_dir reads, and os.listdir of it
ImportDirUri == PathJoin("/data", "plate1")
ListDir == <<"a.tif", "b.tif", "notes.txt">>
ListedNames == {ListDir[i] : i \in 1..Len(ListDir)}

\* os.path.dirname and the last component of a path, for the paths of the model
Dirname(path) ==
    IF \E name \in ListedNames \cup {"plate1"}, dir \in {"/data", ImportDirUri} :
           path = PathJoin(dir, name)
    THEN CHOOSE dir \in {"/data", ImportDirUri} :
             \E name \in ListedNames \cup {"plate1"} : path = PathJoin(dir, name)
    ELSE ""
Basename(path) ==
    IF \E name \in ListedNames, dir \in {"/data", ImportDirUri} : path = PathJoin(dir, name)
    THEN CHOOSE name \in ListedNames :
             \E dir \in {"/data", ImportDirUri} : path = PathJoin(dir, name)
    ELSE path

\* re.compile(filter_).search(file), for the two filters of the model: a
\* name that ends in .tif, a name that holds the letter b
Search(filter_, file) ==
    CASE filter_ = "\\.tif$" -> EndsWith(file, ".tif")
      [] filter_ = "b"       -> file = "b.tif"
      [] OTHER               -> FALSE

(***************************************************************************)
(* The remote store.  An object carries its annotations in link order; an  *)
(* annotation is a tag (value), a map (key-value pairs) or a file (name,   *)
(* content).                                                               *)
(***************************************************************************)
TagAnn(id, value) == [id |-> id, type |-> "tag", value |-> value]
MapAnn(id, pairs) == [id |-> id, type |-> "map", pairs |-> pairs]
FileAnn(id, name, content) == [id |-> id, type |-> "file", name |-> name, content |-> content]
IsFileAnn(ann) == ann.type = "file"

\* Mutation of WrapperSave: the assigned name reaches the remote object
WrapperSave_Forwarded(remote, name) == [remote EXCEPT !.name = name]

\* obj.name = name; obj.save() on the gateway wrapper of a remote object:
\* the assignment makes an attribute of the wrapper, save() stores the
\* object the wrapper holds, and the remote object keeps its name
WrapperSave(remote, name) == remote

\* self._conn.getObject(type, id): there is such an object
ObjectExists(objects, id) == id.k = "int" /\ id.n \in DOMAIN objects

\* The ids of the file annotations linked to any object of the collection
FileAnnIds(objects) ==
    UNION {{objects[o].anns[i].id : i \in {j \in 1..Len(objects[o].anns) :
                                              IsFileAnn(objects[o].anns[j])}} :
           o \in DOMAIN objects}

(***************************************************************************)
(* Processed data: update_processed_data and get_processed_data.           *)
(* A ProcessedData container is a record uuid, md_uri, name, format, run   *)
(* (a container md_uri, uuid, or None), inputs (name, uri, uuid, type      *)
(* each) and output (a dict).                                              *)
(***************************************************************************)
ProcessedInputDoc(input_) ==
    PyDict(<< <<"name", input_.name>>, <<"url", input_.uri>>,
              <<"uuid", input_.uuid>>, <<"type", input_.type>> >>)

\* The metadata dict update_processed_data builds, or the exception raised
\* while building it: processed_data.run is None, or output lacks a key.
OriginDoc(processed_data) ==
    LET name == Subscript(processed_data.output, "name")
        label == Subscript(processed_data.output, "label")
    IN  IF processed_data.run = PyNone THEN Exc("AttributeError")
        ELSE IF IsExc(name) THEN name
        ELSE IF IsExc(label) THEN label
        ELSE PyDict(<< <<"origin", PyDict(<<
                <<"type", PyStr("processed")>>,
                <<"run", PyDict(<< <<"url", processed_data.run.md_uri>>,
                                   <<"uuid", processed_data.run.uuid>> >>)>>,
                <<"inputs", PyList([i \in 1..Len(processed_data.inputs) |->
                                       ProcessedInputDoc(processed_data.inputs[i])])>>,
                <<"output", PyDict(<< <<"name", name>>, <<"label", label>> >>)>> >>)>> >>)

\* What a call did: the store and the workspace it leaves, its outcome, and
\* the remote reads and writes it made
Effect(imgs, files, nid, out, lookups, mutations) ==
    [images |-> imgs, ws |-> files, nextId |-> nid, out |-> out,
     lookups |-> lookups, mutations |-> mutations]

\* update_processed_data(processed_data)
UpdateProcessedData(imgs, files, nid, processed_data) ==
    IF ~ObjectExists(imgs, processed_data.md_uri)
    THEN Effect(imgs, files, nid, Exc("AttributeError"), 1, 0)
    ELSE LET id == processed_data.md_uri.n
             saved == [imgs EXCEPT ![id] = WrapperSave(imgs[id], processed_data.name)]
             metadata == OriginDoc(processed_data)
         IN  IF IsExc(metadata)
             THEN Effect(saved, files, nid, metadata, 1, 1)
             ELSE LET written == WriteJson(files, metadata, ProcessedDataPath)
                      kept == SelectSeq(saved[id].anns, LAMBDA ann :
                                  ~(IsFileAnn(ann) /\ ann.name = ProcessedDataFileName))
                      file_ann == FileAnn(nid, ProcessedDataFileName,
                                          written[ProcessedDataPath])
                  IN  Effect([saved EXCEPT ![id].anns = Append(kept, file_ann)],
                             RemoveFile(written, ProcessedDataPath), nid + 1,
                             Ret(PyNone), 2,
                             IF Len(kept) < Len(saved[id].anns) THEN 4 ELSE 3)

\* The positions of the file annotations whose name ends in .md.json
MdAttachments(anns) ==
    {i \in 1..Len(anns) : IsFileAnn(anns[i]) /\ EndsWith(anns[i].name, ".md.json")}

\* _omero_download_image_md_attachments: the workspace after every file
\* annotation whose name ends in .md.json is downloaded, in link order (of
\* two attachments with one name the later one overwrites the earlier)
DownloadMdAttachments(files, anns) ==
    LET md == MdAttachments(anns)
        paths == {PathJoin(WorkspaceDir, anns[i].name) : i \in md}
        last(path) == CHOOSE i \in md :
                          /\ PathJoin(WorkspaceDir, anns[i].name) = path
                          /\ \A j \in md : PathJoin(WorkspaceDir, anns[j].name) = path => j <= i
    IN  [path \in DOMAIN files \cup paths |->
            IF path \in paths THEN anns[last(path)].content ELSE files[path]]

\* md_found of _omero_download_image_md_attachments
\* Mutation of MdFound: any file attachment counts
MdFound_AnyFile(anns) == \E i \in 1..Len(anns) : IsFileAnn(anns[i])

\* md_found after the loop of _omero_download_image_md_attachments
MdFound(anns) == MdAttachments(anns) # {}

\* key in v, for a str key: a dict has the key, a list has the item; None and
\* int raise TypeError (a str operand does not occur in the model's documents)
In(key, v) ==
    IF IsExc(v) THEN v
    ELSE CASE v.k = "dict" -> PyBool(HasKey(v, key))
           [] v.k = "list" -> PyBool(\E i \in 1..Len(v.items) : v.items[i] = PyStr(key))
           [] OTHER        -> Exc("TypeError")

ParseOriginInputFields(input_) ==
    <<Subscript(input_, "name"), Subscript(input_, "url"),
      Subscript(input_, "uuid"), Subscript(input_, "type")>>

\* The container fields get_processed_data builds from the parts of the
\* document: Ret(run, inputs, output) or the exception raised
ParseOriginParts(metadata, run, inputsIter, output) ==
    LET head == <<metadata, Subscript(run, "url"), Subscript(run, "uuid")>>
        inputErr == IF IsExc(inputsIter) THEN inputsIter
                    ELSE FirstExc([i \in 1..Len(inputsIter.items) |->
                                      FirstExc(ParseOriginInputFields(inputsIter.items[i]))])
        hasName == In("name", output)
        name == IF hasName = PyBool(TRUE) THEN Subscript(output, "name") ELSE PyNone
        hasLabel == In("label", output)
        label == IF hasLabel = PyBool(TRUE) THEN Subscript(output, "label") ELSE PyNone
        err == FirstExc(<<FirstExc(head), inputErr, hasName, name, hasLabel, label>>)
    IN  IF IsExc(err) THEN err
        ELSE Ret([run |-> [md_uri |-> head[2], uuid |-> head[3]],
                  inputs |-> [i \in 1..Len(inputsIter.items) |->
                                LET f == ParseOriginInputFields(inputsIter.items[i])
                                IN  [name |-> f[1], uri |-> f[2], uuid |-> f[3],
                                     type |-> f[4]]],
                  output |-> PyDict(
                      (IF hasName.b THEN << <<"name", name>> >> ELSE <<>>)
                      \o (IF hasLabel.b THEN << <<"label", label>> >> ELSE <<>>))])

\* metadata['origin'] and its run, inputs and output
ParseOriginBlock(metadata, origin) ==
    ParseOriginParts(metadata, Subscript(origin, "run"),
                     Iterate(Subscript(origin, "inputs")), Subscript(origin, "output"))

\* The part of get_processed_data that reads the document
ParseOriginDoc(metadata) == ParseOriginBlock(metadata, Subscript(metadata, "origin"))

\* The part of get_processed_data that reads the downloaded file
ParseOrigin(files) == ParseOriginDoc(ReadJson(files, ProcessedDataPath))

\* get_processed_data once the attachments are downloaded and parsed
GetProcessedDataRead(imgs, nid, md_uri, downloaded, parsed) ==
    IF IsExc(parsed)
    THEN Effect(imgs, downloaded, nid, parsed, 2, 0)
    ELSE Effect(imgs, RemoveFile(downloaded, ProcessedDataPath), nid,
                Ret([uuid |-> md_uri, md_uri |-> md_uri,
                     name |-> imgs[md_uri.n].name, format |-> "imagetiff",
                     run |-> parsed.v.run, inputs |-> parsed.v.inputs,
                     output |-> parsed.v.output]),
                2, 0)

\* get_processed_data once the image is found
GetProcessedDataOf(imgs, nid, md_uri, downloaded) ==
    IF ~MdFound(imgs[md_uri.n].anns)
    THEN Effect(imgs, downloaded, nid, Exc("DataServiceError"), 2, 0)
    ELSE GetProcessedDataRead(imgs, nid, md_uri, downloaded, ParseOrigin(downloaded))

\* get_processed_data(md_uri)
GetProcessedData(imgs, files, nid, md_uri) ==
    IF ~ObjectExists(imgs, md_uri)
    THEN Effect(imgs, files, nid, Ret(PyNone), 1, 0)
    ELSE GetProcessedDataOf(imgs, nid, md_uri,
                            DownloadMdAttachments(files, imgs[md_uri.n].anns))

(***************************************************************************)
(* The codec on its own: a caller holds a Run, the workspace is empty or   *)
(* holds a document some other writer left, and the caller writes its Run  *)
(* with _write_run and reads files with _parse_run.                        *)
(***************************************************************************)
EmptyMap == <<>>
NoHist == [runs |-> EmptyMap, data |-> EmptyMap]
Seqs(S, n) == UNION {[1..m -> S] : m \in 0..n}

CodecPath == PathJoin(WorkspaceDir, "run.md.json")
OtherPath == PathJoin(WorkspaceDir, RunFileName(1))

CodecInputs ==
    { [name |-> PyStr("image"), dataset |-> PyStr("data"), query |-> PyStr(""),
       origin_output_name |-> PyStr("")],
      [name |-> PyStr("mask"), dataset |-> PyStr("segmented"),
       query |-> PyStr("name=cell"), origin_output_name |-> PyStr("out")] }

\* a parameter value held as text, the same value held as a number, another text
CodecParameters ==
    { [name |-> PyStr("sigma"), value |-> PyStr("2")],
      [name |-> PyStr("sigma"), value |-> PyInt(2)],
      [name |-> PyStr("mode"), value |-> PyStr("fast")] }

CodecRuns ==
    { [uuid |-> u, md_uri |-> PyStr(CodecPath),
       process_name |-> PyStr("denoise"), process_uri |-> PyStr("tools/denoise.xml"),
       processed_dataset |-> [md_uri |-> PyInt(12), uuid |-> PyStr("d-12")],
       inputs |-> ins, parameters |-> ps] :
      u \in {PyStr(""), PyInt(31)},
      ins \in Seqs(CodecInputs, MaxLen),
      ps \in Seqs(CodecParameters, MaxLen) }

\* d without its key
DictDel(d, key) == PyDict(SelectSeq(d.pairs, LAMBDA p : p[1] # key))

FullDoc ==
    PyDict(<< <<"uuid", PyStr("x")>>,
              <<"process", PyDict(<< <<"name", PyStr("denoise")>>,
                                     <<"url", PyStr("tools/denoise.xml")>> >>)>>,
              <<"processed_dataset", PyDict(<< <<"uuid", PyStr("d-12")>>,
                                               <<"url", PyInt(12)>> >>)>>,
              <<"inputs", PyList(<<>>)>>,
              <<"parameters", PyList(<<>>)>> >>)

\* Documents of other writers: {"uuid": "x"}, a full document without one of
\* its keys, with a nested object replaced, with an unknown extra field.
ForeignDocs ==
    { PyDict(<< <<"uuid", PyStr("x")>> >>), FullDoc,
      DictSet(FullDoc, "comment", PyStr("extra")),
      DictSet(FullDoc, "process", PyStr("denoise")),
      DictSet(FullDoc, "inputs", PyDict(<<>>)),
      DictSet(FullDoc, "inputs", PyList(<<PyDict(<< <<"name", PyStr("image")>> >>)>>)) }
    \cup { DictDel(FullDoc, key) :
             key \in {"uuid", "process", "processed_dataset", "inputs", "parameters"} }
    \cup { DictSet(FullDoc, outer, DictDel(Subscript(FullDoc, outer), key)) :
             outer \in {"process"}, key \in {"name", "url"} }
    \cup { DictSet(FullDoc, outer, DictDel(Subscript(FullDoc, outer), key)) :
             outer \in {"processed_dataset"}, key \in {"uuid", "url"} }

InitStore ==
    /\ projects = EmptyMap
    /\ datasets = EmptyMap
    /\ images = EmptyMap
    /\ nextId = 1

InitCodec ==
    /\ InitStore
    /\ given \in CodecRuns
    /\ adapter = Built
    /\ builder = NoBuilder
    /\ unlinked = <<>>
    /\ ws \in {EmptyMap, CodecPath :> <<>>} \cup {CodecPath :> JsonDump(d) : d \in ForeignDocs}
    /\ call = NoCall
    /\ hist = NoHist
    /\ proc = Idle

\* The caller writes its Run: _write_run(run)
WriteRunCall ==
    /\ ws' = WriteRunFile(ws, given)
    /\ hist' = [hist EXCEPT !.runs = (given.md_uri.s :> given)]
    /\ call' = Call("_write_run", given, Ret(PyNone), 0, 0)
    /\ UNCHANGED <<projects, datasets, images, nextId, proc, given, adapter, builder, unlinked>>

\* The caller reads a file: _parse_run(md_uri)
ParseRunCall ==
    \E path \in {CodecPath, OtherPath} :
        /\ call' = Call("_parse_run", PyStr(path), ParseRun(ws, path), 0, 0)
        /\ UNCHANGED <<projects, datasets, images, nextId, ws, hist, proc, given, adapter, builder, unlinked>>

NextCodec == WriteRunCall \/ ParseRunCall

SpecCodec == InitCodec /\ [][NextCodec]_vars

\* The file _parse_run read was written by _write_run from a Run with non-empty lists
ParsedOwnRun ==
    /\ call.op = "_parse_run"
    /\ call.arg.s \in DOMAIN hist.runs
    /\ Len(hist.runs[call.arg.s].inputs) > 0
    /\ Len(hist.runs[call.arg.s].parameters) > 0

\* C1: a Run with non-empty input and parameter lists written by _write_run is
\* read back by _parse_run equal field for field, the two lists in the same order.
C1_RunRoundTrip == ParsedOwnRun => call.out = Ret(hist.runs[call.arg.s])

\* C1 witness: a Run with two different inputs and two different parameters,
\* one of them a number, has been written and read back.
C1_Witness ==
    /\ ParsedOwnRun
    /\ Returned(call)
    /\ Len(call.out.v.inputs) = 2
    /\ call.out.v.inputs[1] # call.out.v.inputs[2]
    /\ Len(call.out.v.parameters) = 2
    /\ call.out.v.parameters[1].value = PyInt(2)
    /\ call.out.v.parameters[2].value = PyStr("fast")

\* The required keys of a run document
LacksRequiredKey(toks) ==
    LET d == JsonLoad(toks)
        process == Subscript(d, "process")
        dataset == Subscript(d, "processed_dataset")
    IN  /\ d.k = "dict"
        /\ \/ ~HasKey(d, "uuid")
           \/ ~HasKey(d, "process")
           \/ ~HasKey(d, "processed_dataset")
           \/ process.k = "dict" /\ (~HasKey(process, "name") \/ ~HasKey(process, "url"))
           \/ dataset.k = "dict" /\ (~HasKey(dataset, "uuid") \/ ~HasKey(dataset, "url"))

ParsedLackingDoc ==
    /\ call.op = "_parse_run"
    /\ call.arg.s \in DOMAIN ws
    /\ Len(ws[call.arg.s]) > 0
    /\ LacksRequiredKey(ws[call.arg.s])

\* C4 (as claimed): decoding a run document that lacks uuid, process.name,
\* process.url, processed_dataset.uuid or processed_dataset.url fails with the
\* typed MalformedDocumentError and returns no Run.
C4_MalformedDocumentError == ParsedLackingDoc => Raised(call, "MalformedDocumentError")

(***************************************************************************)
(* Processed data on a store that holds one experiment: project 1 with the *)
(* raw dataset 2 and the processed dataset 3, and image 4 in dataset 3.    *)
(* The image starts with no attachment, or with one a previous writer left *)
(* (annotation 5).                                                         *)
(***************************************************************************)
Project(name, anns) == [name |-> name, anns |-> anns]
Dataset(name, project, anns) == [name |-> name, project |-> project, anns |-> anns]
Image(name, dataset, anns) == [name |-> name, dataset |-> dataset, anns |-> anns]

InitialIds == 1..6
\* The bound on the objects a behaviour creates is reached
StoreFull == nextId >= Cardinality(InitialIds) + 1 + MaxObjects

\* a document of another writer, whose output records a name and no label
OriginDocNoLabel ==
    PyDict(<< <<"origin", PyDict(<<
        <<"type", PyStr("processed")>>,
        <<"run", PyDict(<< <<"url", PyInt(7)>>, <<"uuid", PyInt(7)>> >>)>>,
        <<"inputs", PyList(<<>>)>>,
        <<"output", PyDict(<< <<"name", PyStr("o")>> >>)>> >>)>> >>)

InitialImageAnns ==
    { <<>>,
      <<FileAnn(5, "notes.txt", <<>>)>>,
      <<FileAnn(5, ProcessedDataFileName, JsonDump(OriginDocNoLabel))>>,
      <<FileAnn(5, "run.md.json", JsonDump(FullDoc))>> }

PDInputs ==
    { [name |-> PyStr("image"), uri |-> PyInt(8), uuid |-> PyStr("u-8"), type |-> PyStr("raw")],
      [name |-> PyStr("mask"), uri |-> PyStr("masks/1"), uuid |-> PyInt(9),
       type |-> PyStr("processed")] }

PDOutputs ==
    { PyDict(<<>>),
      PyDict(<< <<"name", PyStr("o")>> >>),
      PyDict(<< <<"label", PyStr("Denoised")>> >>),
      PyDict(<< <<"name", PyStr("o")>>, <<"label", PyStr("Denoised")>> >>),
      PyDict(<< <<"label", PyStr("")>>, <<"name", PyStr("")>> >>) }

PDRuns == { [md_uri |-> PyInt(7), uuid |-> PyStr("r-7")],
            [md_uri |-> PyStr(""), uuid |-> PyStr("")],
            PyNone }

PDContainer(id, run, ins, out) ==
    [uuid |-> id, md_uri |-> id, name |-> "denoised", format |-> "imagetiff",
     run |-> run, inputs |-> ins, output |-> out]

\* The containers passed to update_processed_data: for the existing image 4
\* and the absent image 9, every input list with a full run and output,
\* and every run and output with one input
PDContainers ==
    { PDContainer(id, [md_uri |-> PyInt(7), uuid |-> PyStr("r-7")], ins,
                  PyDict(<< <<"name", PyStr("o")>>, <<"label", PyStr("Denoised")>> >>)) :
      id \in {PyInt(4), PyInt(9)}, ins \in Seqs(PDInputs, MaxLen) }
    \cup
    { PDContainer(id, run, <<CHOOSE input_ \in PDInputs : input_.name = PyStr("image")>>, out) :
      id \in {PyInt(4), PyInt(9)}, run \in PDRuns, out \in PDOutputs }

InitPD ==
    /\ projects = (1 :> Project("exp", <<>>))
    /\ datasets = (2 :> Dataset("data", 1, <<>>)) @@ (3 :> Dataset("results", 1, <<>>))
    /\ \E anns \in InitialImageAnns : images = (4 :> Image("img", 3, anns))
    /\ nextId = Cardinality(InitialIds) + 1
    /\ ws = EmptyMap
    /\ call = NoCall
    /\ hist = NoHist
    /\ proc = Idle
    /\ given = PyNone
    /\ adapter = Built
    /\ builder = NoBuilder
    /\ unlinked = <<>>

\* A call that acts on images and the workspace ends with the effect eff
ImageCallEnds(op, arg, eff) ==
    /\ images' = eff.images
    /\ ws' = eff.ws
    /\ nextId' = eff.nextId
    /\ call' = Call(op, arg, eff.out, eff.lookups, eff.mutations)

\* A well-formed ProcessedData attached to an existing image: it names an
\* image of the store and carries the reference of a persisted run (no
\* empty identity); the name and the label of its output are optional
WellFormedData(imgs, processed_data) ==
    /\ ObjectExists(imgs, processed_data.md_uri)
    /\ processed_data.run # PyNone
    /\ PyStr("") \notin {processed_data.run.md_uri, processed_data.run.uuid}

\* The history after update_processed_data(processed_data): the last
\* well-formed container passed for each existing image
DataWritten(processed_data) ==
    IF WellFormedData(images, processed_data)
    THEN [hist EXCEPT !.data = (processed_data.md_uri.n :> processed_data) @@ hist.data]
    ELSE hist

\* update_processed_data(processed_data), for a container of the set
UpdateProcessedDataWith(containers) ==
    \E processed_data \in containers :
        /\ ~StoreFull
        /\ ImageCallEnds("update_processed_data", processed_data,
                         UpdateProcessedData(images, ws, nextId, processed_data))
        /\ hist' = DataWritten(processed_data)
        /\ UNCHANGED <<projects, datasets, proc, given, adapter, builder, unlinked>>

\* update_processed_data(processed_data)
UpdateProcessedDataCall == UpdateProcessedDataWith(PDContainers)

\* get_processed_data(md_uri)
GetProcessedDataCall ==
    \E md_uri \in {PyInt(4), PyInt(9)} :
        /\ ImageCallEnds("get_processed_data", md_uri,
                         GetProcessedData(images, ws, nextId, md_uri))
        /\ UNCHANGED <<projects, datasets, hist, proc, given, adapter, builder, unlinked>>

\* What imsave writes: the planes of channel 0 and time point 0 of the image
PixelData(id) == <<[t |-> "pixels", n |-> id]>>

\* download_data(md_uri, destination_file_uri): the empty destination stands
\* for tmp.tif in the workspace; an absent image raises AttributeError on
\* None before a file is written; otherwise the planes are read and saved
\* at the destination, which is returned
DownloadData(imgs, files, nid, md_uri, destination_file_uri) ==
    LET destination == IF destination_file_uri = ""
                       THEN PathJoin(WorkspaceDir, "tmp.tif")
                       ELSE destination_file_uri
    IN  IF ~ObjectExists(imgs, md_uri)
        THEN Effect(imgs, files, nid, Exc("AttributeError"), 1, 0)
        ELSE Effect(imgs,
                    [path \in DOMAIN files \cup {destination} |->
                        IF path = destination THEN PixelData(md_uri.n) ELSE files[path]],
                    nid, Ret(PyStr(destination)), 3, 0)

\* download_data(md_uri, destination_file_uri), for an image of the store
\* or the absent image 9, to the default or to a given destination
DownloadDataCall ==
    \E id \in DOMAIN images \cup {9}, destination_file_uri \in {"", "/data/out.tif"} :
        /\ ImageCallEnds("download_data",
                         [md_uri |-> PyInt(id), destination_file_uri |-> destination_file_uri],
                         DownloadData(images, ws, nextId, PyInt(id), destination_file_uri))
        /\ UNCHANGED <<projects, datasets, hist, proc, given, adapter, builder, unlinked>>

NextPD == UpdateProcessedDataCall \/ GetProcessedDataCall \/ DownloadDataCall

SpecPD == InitPD /\ [][NextPD]_vars

\* Python's == on two dict values: the same keys with the same values
DictEq(a, b) ==
    /\ \A i \in 1..Len(a.pairs) : Subscript(b, a.pairs[i][1]) = a.pairs[i][2]
    /\ \A i \in 1..Len(b.pairs) : Subscript(a, b.pairs[i][1]) = b.pairs[i][2]

\* get_processed_data was called on an existing image after
\* update_processed_data was called for it with a well-formed container
GotUpdatedData ==
    /\ call.op = "get_processed_data"
    /\ call.arg.n \in DOMAIN hist.data

\* C2: for any well-formed ProcessedData p attached to an existing image,
\* get_processed_data(p.md_uri) called after update_processed_data(p)
\* returns a container whose run reference, ordered input list and output
\* descriptor are those of p; an output without name or label is well-formed.
C2_ProcessedDataRoundTrip ==
    GotUpdatedData =>
        /\ Returned(call)
        /\ call.out.v # PyNone
        /\ call.out.v.md_uri = hist.data[call.arg.n].md_uri
        /\ call.out.v.run = hist.data[call.arg.n].run
        /\ call.out.v.inputs = hist.data[call.arg.n].inputs
        /\ DictEq(call.out.v.output, hist.data[call.arg.n].output)

\* update_processed_data was called for an existing image with a container
\* that has a run and whose output lacks the name or the label
UpdatedWithoutOutputKey ==
    /\ call.op = "update_processed_data"
    /\ ObjectExists(images, call.arg.md_uri)
    /\ call.arg.run # PyNone
    /\ ~HasKey(call.arg.output, "label") \/ ~HasKey(call.arg.output, "name")

\* C3 (as claimed): a ProcessedData origin without output.label, or without
\* output.name, is encoded by update_processed_data (and then decodes with
\* the key absent).
C3_AbsentOutputKeyEncodes == UpdatedWithoutOutputKey => Returned(call)


(***************************************************************************)
(* Runs: create_run, create_data and update_processed_data on one adapter. *)
(* create_run is followed statement by statement: it lists the file        *)
(* attachments of the dataset and picks the name, writes the document in   *)
(* the workspace, then uploads and links it; the upload can fail.          *)
(***************************************************************************)
\* ann_files of create_run: the names of the file annotations, in link order
AnnFiles(anns) ==
    LET files == SelectSeq(anns, IsFileAnn)
    IN  [i \in 1..Len(files) |-> files[i].name]

\* run_md_file_name in ann_files
InList(name, ann_files) == \E i \in 1..Len(ann_files) : ann_files[i] = name

\* The while loop of create_run
RECURSIVE PickRunName(_, _, _)
PickRunName(ann_files, run_md_file_name, run_id_count) ==
    IF InList(run_md_file_name, ann_files)
    THEN PickRunName(ann_files, RunFileName(run_id_count + 1), run_id_count + 1)
    ELSE run_md_file_name

\* Mutation of NewRunFileName: the suffix is the number of file attachments
NewRunFileName_ByCount(ann_files) ==
    IF Len(ann_files) = 0 THEN "run.md.json" ELSE RunFileName(Len(ann_files))

\* The name create_run gives to the document of a new run
NewRunFileName(ann_files) == PickRunName(ann_files, "run.md.json", 0)

\* A Dataset container as the caller holds it
DatasetContainer(id) == [md_uri |-> PyInt(id), uuid |-> PyInt(id)]

\* Runs the caller has built and never persisted: Run() leaves uuid and md_uri empty
RunInfos ==
    { [uuid |-> PyStr(""), md_uri |-> PyStr(""),
       process_name |-> PyStr("denoise"), process_uri |-> PyStr("tools/denoise.xml"),
       processed_dataset |-> PyNone, inputs |-> ins, parameters |-> ps] :
      ins \in {<<>>, <<CHOOSE input_ \in CodecInputs : input_.name = PyStr("image")>>},
      ps \in {<<>>, <<CHOOSE parameter \in CodecParameters : parameter.value = PyInt(2)>>} }

\* create_run, lines 984-996: the dataset is looked up, its file attachments
\* are listed and the name of the document is picked.  An absent dataset
\* ends the call: None has no listAnnotations.
CreateRunList ==
    \E id \in {3, 9}, run_info \in RunInfos :
        /\ proc.pc = "idle"
        /\ ~StoreFull
        /\ given' = run_info
        /\ IF id \in DOMAIN datasets
           THEN /\ proc' = [pc |-> "named", dataset |-> id,
                            run_md_file_name |-> NewRunFileName(AnnFiles(datasets[id].anns))]
                /\ UNCHANGED call
           ELSE /\ proc' = Idle
                /\ call' = Call("create_run", DatasetContainer(id), Exc("AttributeError"), 1, 0)
        /\ UNCHANGED <<projects, datasets, images, nextId, ws, hist, adapter, builder, unlinked>>

\* create_run, lines 998-1002: the Run is given its dataset, an empty uuid and
\* the path of the local file, and is written there
CreateRunWrite ==
    /\ proc.pc = "named"
    /\ given' = [given EXCEPT !.processed_dataset = DatasetContainer(proc.dataset),
                              !.uuid = PyStr(""),
                              !.md_uri = PyStr(PathJoin(WorkspaceDir, proc.run_md_file_name))]
    /\ ws' = WriteRunFile(ws, given')
    /\ proc' = [proc EXCEPT !.pc = "written"]
    /\ UNCHANGED <<projects, datasets, images, nextId, call, hist, adapter, builder, unlinked>>

\* create_run, lines 1005-1013: the file is uploaded as a file annotation and
\* linked to the dataset, the Run takes the id of the annotation, the local
\* file is removed
CreateRunUpload ==
    /\ proc.pc = "written"
    /\ datasets' = [datasets EXCEPT ![proc.dataset].anns =
                       Append(@, FileAnn(nextId, proc.run_md_file_name, ws[given.md_uri.s]))]
    /\ nextId' = nextId + 1
    /\ given' = [given EXCEPT !.uuid = PyInt(nextId), !.md_uri = PyInt(nextId)]
    /\ ws' = RemoveFile(ws, given.md_uri.s)
    /\ proc' = Idle
    /\ call' = Call("create_run", DatasetContainer(proc.dataset), Ret(given'), 2, 2)
    /\ UNCHANGED <<projects, images, hist, adapter, builder, unlinked>>

\* create_run, line 1005, when the remote store fails: createFileAnnfromLocalFile
\* raises, nothing is attached and the call ends there
CreateRunUploadFails ==
    /\ proc.pc = "written"
    /\ proc' = Idle
    /\ call' = Call("create_run", DatasetContainer(proc.dataset),
                    Exc("ConnectionLostException"), 2, 0)
    /\ UNCHANGED <<projects, datasets, images, nextId, ws, hist, given, adapter, builder, unlinked>>

\* create_data after the image is created: update_processed_data ended with eff
CreateDataEnds(container, eff) ==
    Effect(eff.images, eff.ws, eff.nextId,
           IF IsExc(eff.out) THEN eff.out ELSE Ret(container),
           eff.lookups + 1, eff.mutations + 1)

\* create_data(dataset, run, processed_data): the image is created in the
\* dataset (in none when the dataset is absent), the container takes its id
\* and the run, and update_processed_data attaches the origin document.
\* Another format than imagetiff reads self.conn, which the service lacks.
CreateData(dsets, imgs, files, nid, dataset, run, processed_data) ==
    IF processed_data.format # "imagetiff"
    THEN Effect(imgs, files, nid, Exc("AttributeError"), 1, 0)
    ELSE CreateDataEnds(
             [processed_data EXCEPT !.uuid = PyInt(nid), !.md_uri = PyInt(nid), !.run = run],
             UpdateProcessedData(
                 (nid :> Image(processed_data.name,
                               IF ObjectExists(dsets, dataset.md_uri)
                               THEN dataset.md_uri.n ELSE 0, <<>>)) @@ imgs,
                 files, nid + 1,
                 [processed_data EXCEPT !.uuid = PyInt(nid), !.md_uri = PyInt(nid),
                                        !.run = run]))

\* The run the caller passes with a processed data: the Run it holds, as it is
HeldRuns == IF given = PyNone THEN {PyNone} ELSE {given}

\* The containers the caller passes to create_data
NewDataContainers ==
    { [PDContainer(PyStr(""), PyNone, ins,
                   PyDict(<< <<"name", PyStr("o")>>, <<"label", PyStr("Denoised")>> >>))
       EXCEPT !.format = format_] :
      ins \in Seqs({CHOOSE input_ \in PDInputs : input_.name = PyStr("image")}, 1),
      format_ \in {"imagetiff", "czi"} }

\* create_data(dataset, run, processed_data)
CreateDataCall ==
    \E id \in {3, 9}, run \in HeldRuns, processed_data \in NewDataContainers :
        /\ proc.pc = "idle"
        /\ nextId + 2 <= Cardinality(InitialIds) + 1 + MaxObjects
        /\ ImageCallEnds("create_data", processed_data,
                         CreateData(datasets, images, ws, nextId, DatasetContainer(id),
                                    run, processed_data))
        /\ UNCHANGED <<projects, datasets, hist, proc, given, adapter, builder, unlinked>>

\* The containers the caller passes to update_processed_data: image 4 or the
\* absent image 9, with a reference to the Run it holds
HeldDataContainers ==
    { PDContainer(id, IF run = PyNone THEN PyNone
                      ELSE [md_uri |-> run.md_uri, uuid |-> run.uuid],
                  <<CHOOSE input_ \in PDInputs : input_.name = PyStr("image")>>,
                  PyDict(<< <<"name", PyStr("o")>>, <<"label", PyStr("Denoised")>> >>)) :
      id \in {PyInt(4), PyInt(9)}, run \in HeldRuns }

\* update_processed_data(processed_data) between two create_run calls
UpdateDataOfRunCall ==
    /\ proc.pc = "idle"
    /\ UpdateProcessedDataWith(HeldDataContainers)

\* The dataset of the results starts with no attachment, with attachments of
\* other clients, or with documents of earlier runs (annotations 5 and 6)
InitialDatasetAnns ==
    { <<>>,
      <<FileAnn(5, "notes.txt", <<>>)>>,
      <<FileAnn(5, "run.md.json", JsonDump(FullDoc))>>,
      <<TagAnn(5, "stain"), FileAnn(6, "run.md.json", JsonDump(FullDoc))>>,
      <<FileAnn(5, "run.md.json", JsonDump(FullDoc)),
        FileAnn(6, RunFileName(1), JsonDump(FullDoc))>>,
      <<FileAnn(5, RunFileName(2), JsonDump(FullDoc)),
        FileAnn(6, "run.md.json", JsonDump(FullDoc))>> }

InitRun ==
    /\ projects = (1 :> Project("exp", <<>>))
    /\ \E anns \in InitialDatasetAnns :
          datasets = (2 :> Dataset("data", 1, <<>>)) @@ (3 :> Dataset("results", 1, anns))
    /\ images = (4 :> Image("img", 3, <<>>))
    /\ nextId = Cardinality(InitialIds) + 1
    /\ ws = EmptyMap
    /\ call = NoCall
    /\ hist = NoHist
    /\ proc = Idle
    /\ given = PyNone
    /\ adapter = Built
    /\ builder = NoBuilder
    /\ unlinked = <<>>

NextRun ==
    \/ CreateRunList
    \/ CreateRunWrite
    \/ CreateRunUpload
    \/ CreateRunUploadFails
    \/ CreateDataCall
    \/ UpdateDataOfRunCall

SpecRun == InitRun /\ [][NextRun]_vars

\* The names of the file attachments of a dataset
FileNamesOf(id) ==
    {datasets[id].anns[i].name : i \in {j \in 1..Len(datasets[id].anns) :
                                            IsFileAnn(datasets[id].anns[j])}}

\* name is the first name of run.md.json, run_1.md.json, run_2.md.json, ...
\* that is not in names
FirstFreeRunName(name, names) ==
    IF "run.md.json" \notin names
    THEN name = "run.md.json"
    ELSE \E k \in 1..MaxRunIndex :
            /\ name = RunFileName(k)
            /\ RunFileName(k) \notin names
            /\ \A j \in 1..(k - 1) : RunFileName(j) \in names

\* No two file attachments of a dataset carry the same name
DistinctAttachmentNames ==
    \A id \in DOMAIN datasets :
        \A i, j \in 1..Len(datasets[id].anns) :
            (/\ i # j
             /\ IsFileAnn(datasets[id].anns[i])
             /\ IsFileAnn(datasets[id].anns[j]))
            => datasets[id].anns[i].name # datasets[id].anns[j].name

\* C5: the name create_run picks for the new run document is run.md.json
\* when the dataset has no file attachment of that name, and otherwise
\* run_k.md.json for the smallest k >= 1 that is not the name of a file
\* attachment of the dataset; after any sequence of create_run calls the
\* attachment names of a dataset are pairwise distinct.
C5_NextFreeRunName ==
    /\ proc.pc # "idle" => FirstFreeRunName(proc.run_md_file_name, FileNamesOf(proc.dataset))
    /\ DistinctAttachmentNames

\* create_run picks run_2.md.json for a dataset that holds run.md.json and
\* run_1.md.json, the latter attached by an earlier create_run of the behaviour
C5_Witness ==
    /\ proc.pc = "written"
    /\ proc.run_md_file_name = RunFileName(2)
    /\ "run.md.json" \in FileNamesOf(3)
    /\ \E i \in 1..Len(datasets[3].anns) :
          /\ IsFileAnn(datasets[3].anns[i])
          /\ datasets[3].anns[i].id > Cardinality(InitialIds)
          /\ datasets[3].anns[i].name = RunFileName(1)

\* The run document of the create_run call at hand is not attached to the dataset
RunNotAttached ==
    \/ proc.pc # "idle"
    \/ call.op = "create_run" /\ ~Returned(call)

\* C8: in every state of create_run in which the run document is not yet
\* attached to the remote dataset, and after a create_run that failed before
\* the attachment, the uuid and the md_uri of the Run are both empty.
C8_EmptyIdentityUntilAttached ==
    RunNotAttached => given.uuid = PyStr("") /\ given.md_uri = PyStr("")

\* The value a processed-data document records as origin.run.uuid
OriginRunUuid(content) ==
    Subscript(Subscript(Subscript(JsonLoad(content), "origin"), "run"), "uuid")

\* The run documents attached to datasets: the ids of the file annotations
\* whose name ends in .md.json
RunDocumentIds ==
    UNION {{datasets[d].anns[i].id : i \in MdAttachments(datasets[d].anns)} :
           d \in DOMAIN datasets}

\* C9: the origin.run reference of every processed-data attachment of the
\* remote store identifies a run document attached to a dataset.
C9_OriginRunAttached ==
    \A id \in DOMAIN images :
        \A i \in 1..Len(images[id].anns) :
            (IsFileAnn(images[id].anns[i]) /\ images[id].anns[i].name = ProcessedDataFileName)
            => \E run \in RunDocumentIds :
                  OriginRunUuid(images[id].anns[i].content) = PyInt(run)


(***************************************************************************)
(* Raw data: import_data and get_raw_data.  A RawData container is a       *)
(* record uuid, md_uri, name, format, type and key_value_pairs (a dict).   *)
(* A map annotation holds its pairs as <<key, value>> in order.            *)
(***************************************************************************)
\* The loop of get_raw_data over the pairs of one map annotation, from pair i
RECURSIVE MergePairs(_, _, _)
MergePairs(kv, values, i) ==
    IF i > Len(values) THEN kv
    ELSE MergePairs(DictSet(kv, values[i][1], values[i][2]), values, i + 1)

\* The loop of get_raw_data over the annotations of the image, from annotation i
RECURSIVE MergeMaps(_, _, _)
MergeMaps(kv, anns, i) ==
    IF i > Len(anns) THEN kv
    ELSE MergeMaps(IF anns[i].type = "map" THEN MergePairs(kv, anns[i].pairs, 1) ELSE kv,
                   anns, i + 1)

\* Mutation of MergeTag: the tag is written whether or not the key is there
MergeTag_Overwrite(kv, value) == DictSet(kv, value, PyStr(""))

\* One experiment tag read by get_raw_data
MergeTag(kv, value) == IF HasKey(kv, value) THEN kv ELSE DictSet(kv, value, PyStr(""))

\* The loop of get_raw_data over the annotations of the project, from annotation i
RECURSIVE MergeTags(_, _, _)
MergeTags(kv, anns, i) ==
    IF i > Len(anns) THEN kv
    ELSE MergeTags(IF anns[i].type = "tag" THEN MergeTag(kv, anns[i].value) ELSE kv,
                   anns, i + 1)

\* get_raw_data(md_uri): an absent image, or an image in no dataset, raises
\* AttributeError on None
GetRawData(projs, dsets, imgs, files, nid, md_uri) ==
    IF ~ObjectExists(imgs, md_uri)
    THEN Effect(imgs, files, nid, Exc("AttributeError"), 1, 0)
    ELSE IF imgs[md_uri.n].dataset \notin DOMAIN dsets
    THEN Effect(imgs, files, nid, Exc("AttributeError"), 2, 0)
    ELSE Effect(imgs, files, nid,
                Ret([uuid |-> md_uri, md_uri |-> md_uri, name |-> imgs[md_uri.n].name,
                     format |-> "imagetiff", type |-> "raw",
                     key_value_pairs |->
                         MergeTags(MergeMaps(PyDict(<<>>), imgs[md_uri.n].anns, 1),
                                   projs[dsets[imgs[md_uri.n].dataset].project].anns, 1)]),
                4, 0)

\* What import_data does with the key-value pairs on the imported image nid:
\* a map annotation is saved and linked when there is a pair
ImportedAnns(nid, key_value_pairs) ==
    IF Len(key_value_pairs.pairs) # 0
    THEN <<MapAnn(nid + 1, key_value_pairs.pairs)>>
    ELSE <<>>

\* import_data(experiment, data_path, name, author, format_, date, key_value_pairs):
\* the raw dataset is looked up, then the format is tested; an imagetiff is
\* imported by main_import under the name of its file and linked to the raw
\* dataset.
ImportData(imgs, files, nid, raw_dataset_id, data_path, name, format_, key_value_pairs) ==
    IF format_ # "imagetiff"
    THEN Effect(imgs, files, nid, Exc("DataServiceError"), 1, 0)
    ELSE Effect((nid :> Image(Basename(data_path), raw_dataset_id,
                              ImportedAnns(nid, key_value_pairs)))
                    @@ imgs,
                files,
                nid + 1 + Len(ImportedAnns(nid, key_value_pairs)),
                Ret([uuid |-> PyInt(nid), md_uri |-> PyInt(nid), name |-> name,
                     format |-> format_, key_value_pairs |-> key_value_pairs]),
                1 + Len(ImportedAnns(nid, key_value_pairs)),
                2 + 2 * Len(ImportedAnns(nid, key_value_pairs)))

\* The sessions open after import_data: main_import creates a session for
\* an imagetiff and returns without closing it
ImportSessions(open, nid, format_) ==
    IF format_ = "imagetiff" THEN open \cup {ImportSession(nid)} ELSE open

\* The omero.client of main_import is a local of that function (lines
\* 192-194), so it is garbage once main_import has returned or raised; when
\* the collector finalizes it, omero.client.__del__ closes its session.
\* When that happens is up to the collector.
ImportClientFinalized ==
    /\ \E session \in adapter.open :
          /\ session.by = "main_import"
          /\ adapter' = [adapter EXCEPT !.open = @ \ {session}]
    /\ UNCHANGED <<projects, datasets, images, nextId, ws, call, hist, proc, given, builder,
                   unlinked>>

\* The key-value pairs a caller passes to import_data
ImportedPairs ==
    { PyDict(<<>>),
      PyDict(<< <<"stain", PyStr("DAPI")>> >>),
      PyDict(<< <<"stain", PyStr("GFP")>>, <<"cell", PyStr("hela")>> >>) }

\* import_data(...) into the raw dataset 2
ImportDataCall ==
    \E format_ \in {"imagetiff", "czi"}, key_value_pairs \in ImportedPairs :
        /\ Cardinality(DOMAIN images) <= MaxObjects
        /\ ImageCallEnds("import_data",
                         [raw_dataset |-> PyInt(2), data_path |-> "a.tif", name |-> "a",
                          format_ |-> format_, key_value_pairs |-> key_value_pairs],
                         ImportData(images, ws, nextId, 2, "a.tif", "a", format_,
                                    key_value_pairs))
        /\ adapter' = [adapter EXCEPT !.open = ImportSessions(@, nextId, format_)]
        /\ UNCHANGED <<projects, datasets, hist, proc, given, builder, unlinked>>

\* get_raw_data(md_uri), for an image of the store or the absent image 9
GetRawDataCall ==
    \E id \in DOMAIN images \cup {9} :
        /\ ImageCallEnds("get_raw_data", PyInt(id),
                         GetRawData(projects, datasets, images, ws, nextId, PyInt(id)))
        /\ UNCHANGED <<projects, datasets, hist, proc, given, adapter, builder, unlinked>>

\* The tags of the experiment (annotations 5 and 6)
InitialProjectAnns ==
    { <<>>,
      <<TagAnn(5, "stain")>>,
      <<TagAnn(5, "cell"), TagAnn(6, "stain")>>,
      <<TagAnn(5, "time"), FileAnn(6, "notes.txt", <<>>)>> }

\* The annotations of the raw image 4 (annotations 7 and 8)
InitialRawAnns ==
    { <<>>,
      <<MapAnn(7, << <<"stain", PyStr("DAPI")>> >>)>>,
      <<MapAnn(7, << <<"stain", PyStr("DAPI")>>, <<"cell", PyStr("")>> >>)>>,
      <<MapAnn(7, << <<"stain", PyStr("DAPI")>> >>),
        MapAnn(8, << <<"cell", PyStr("hela")>>, <<"stain", PyStr("GFP")>> >>)>>,
      <<TagAnn(7, "time"), MapAnn(8, << <<"cell", PyStr("hela")>> >>)>> }

\* The store with one experiment and one raw image, before any call
InitRawStore ==
    /\ \E anns \in InitialProjectAnns : projects = (1 :> Project("exp", anns))
    /\ datasets = (2 :> Dataset("data", 1, <<>>)) @@ (3 :> Dataset("results", 1, <<>>))
    /\ \E anns \in InitialRawAnns : images = (4 :> Image("img", 2, anns))
    /\ nextId = 11
    /\ ws = EmptyMap
    /\ call = NoCall
    /\ hist = NoHist
    /\ proc = Idle
    /\ given = PyNone

InitRaw ==
    /\ InitRawStore
    /\ adapter = Built
    /\ builder = NoBuilder
    /\ unlinked = <<>>

\* The key-value pairs of import_dir: the directory tag, when its key is given
DirectoryPairs(dir_uri, directory_tag_key) ==
    IF directory_tag_key # ""
    THEN PyDict(<< <<directory_tag_key, PyStr(Dirname(dir_uri))>> >>)
    ELSE PyDict(<<>>)

\* What import_dir did after one more import_data: the store it leaves and
\* the remote traffic of all the imports
ImportDirAdds(eff, one) ==
    Effect(one.images, one.ws, one.nextId, Ret(PyNone),
           eff.lookups + one.lookups, eff.mutations + one.mutations)

\* The loop of import_dir over the files the filter takes, from file i
RECURSIVE ImportDirFrom(_, _, _, _, _, _)
ImportDirFrom(eff, raw_dataset_id, dir_uri, files, key_value_pairs, i) ==
    IF i > Len(files) THEN eff
    ELSE ImportDirFrom(
             ImportDirAdds(eff, ImportData(eff.images, eff.ws, eff.nextId, raw_dataset_id,
                                           PathJoin(dir_uri, files[i]), files[i],
                                           "imagetiff", key_value_pairs)),
             raw_dataset_id, dir_uri, files, key_value_pairs, i + 1)

\* import_dir(experiment, dir_uri, filter_, author, format_, date,
\* directory_tag_key), tag_key for short: every listed file the filter takes is imported by
\* import_data with the same pairs; another format raises DataServiceError
\* before any remote call
ImportDir(imgs, files, nid, raw_dataset_id, dir_uri, listed, filter_, format_, tag_key) ==
    IF format_ # "imagetiff"
    THEN Effect(imgs, files, nid, Exc("DataServiceError"), 0, 0)
    ELSE ImportDirFrom(Effect(imgs, files, nid, Ret(PyNone), 0, 0), raw_dataset_id, dir_uri,
                       SelectSeq(listed, LAMBDA file : Search(filter_, file)),
                       DirectoryPairs(dir_uri, tag_key), 1)

\* import_dir(...) into the raw dataset 2; main_import opens one session
\* for each image it imports
ImportDirCall ==
    \E filter_ \in {"\\.tif$", "b"}, format_ \in {"imagetiff", "czi"},
       directory_tag_key \in {"", "folder"} :
        /\ Cardinality(DOMAIN images) < MaxObjects
        /\ ImageCallEnds("import_dir",
                         [raw_dataset |-> PyInt(2), dir_uri |-> ImportDirUri,
                          filter_ |-> filter_, format_ |-> format_,
                          directory_tag_key |-> directory_tag_key],
                         ImportDir(images, ws, nextId, 2, ImportDirUri, ListDir, filter_,
                                   format_, directory_tag_key))
        /\ adapter' = [adapter EXCEPT !.open =
                          @ \cup {ImportSession(id) : id \in DOMAIN images' \ DOMAIN images}]
        /\ UNCHANGED <<projects, datasets, hist, proc, given, builder, unlinked>>

NextRaw == ImportDataCall \/ GetRawDataCall \/ ImportDirCall \/ ImportClientFinalized

SpecRaw == InitRaw /\ [][NextRaw]_vars

\* The item-level pairs of an image: the pairs of its map annotations
ItemPairs(id) ==
    UNION {{images[id].anns[i].pairs[j] : j \in 1..Len(images[id].anns[i].pairs)} :
           i \in {a \in 1..Len(images[id].anns) : images[id].anns[a].type = "map"}}

\* The experiment-level tags of an image: the tag values of its project
ExperimentTags(id) ==
    LET anns == projects[datasets[images[id].dataset].project].anns
    IN  {anns[i].value : i \in {a \in 1..Len(anns) : anns[a].type = "tag"}}

\* get_raw_data returned the container of an image
GotRawData == call.op = "get_raw_data" /\ Returned(call)

\* C6: in the key_value_pairs get_raw_data returns, a key carried by an
\* item-level map annotation maps to an item-level value of that key, an
\* experiment tag is a key, with the empty value when no item-level
\* annotation carries it, and there is no other key.
C6_ItemLevelWins ==
    GotRawData =>
        LET kv == call.out.v.key_value_pairs
            item == ItemPairs(call.arg.n)
            tags == ExperimentTags(call.arg.n)
        IN  /\ \A pair \in item :
                  /\ HasKey(kv, pair[1])
                  /\ \E other \in item : other[1] = pair[1] /\ Subscript(kv, pair[1]) = other[2]
            /\ \A tag \in tags :
                  /\ HasKey(kv, tag)
                  /\ (\A pair \in item : pair[1] # tag) => Subscript(kv, tag) = PyStr("")
            /\ \A i \in 1..Len(kv.pairs) :
                  kv.pairs[i][1] \in tags \cup {pair[1] : pair \in item}

\* get_raw_data returned stain -> DAPI for an image that carries the pair
\* stain -> DAPI, in an experiment with the tag stain
C6_Witness ==
    /\ GotRawData
    /\ "stain" \in ExperimentTags(call.arg.n)
    /\ <<"stain", PyStr("DAPI")>> \in ItemPairs(call.arg.n)
    /\ Subscript(call.out.v.key_value_pairs, "stain") = PyStr("DAPI")

\* C7: import_data with a format other than imagetiff raises the
\* unsupported-format error after no remote lookup and no remote mutation.
C7_FormatRejectedWithoutRemote ==
    (call.op = "import_data" /\ call.arg.format_ # "imagetiff")
    => /\ Raised(call, "DataServiceError")
       /\ call.lookups = 0
       /\ call.mutations = 0


(***************************************************************************)
(* Experiments: create_experiment.  An Experiment container is a record    *)
(* uuid, md_uri, name, keys and raw_dataset (name, url, uuid).             *)
(***************************************************************************)
\* Mutation of ProjectNameExists: the names are not compared
ProjectNameExists_Unchecked(projs, name) == FALSE

\* The loop of create_experiment over the projects of the store: one of them
\* has the name
ProjectNameExists(projs, name) == \E id \in DOMAIN projs : projs[id].name = name

\* What a call on projects and datasets did
StoreEffect(projs, dsets, nid, out, lookups, mutations) ==
    [projects |-> projs, datasets |-> dsets, nextId |-> nid, out |-> out,
     lookups |-> lookups, mutations |-> mutations]

\* A boxed id (omero.rtypes.rlong), as the id attribute of a model object
RLong(n) == [k |-> "rlong", n |-> n]

\* The tags create_experiment saves, one per key, after the project nid and
\* its dataset nid + 1
SavedTags(nid, keys) == [i \in 1..Len(keys) |-> TagAnn(nid + 1 + i, keys[i])]

\* create_experiment(name, author, date, keys): a project of that name ends
\* the call with DataServiceError; otherwise the project nid and its dataset
\* 'data' nid + 1 are saved and linked, and one tag per key is saved.
\* linkAnnotation is called on the model object inside the project wrapper,
\* which adds the link to that object in memory and sends nothing: the
\* remote project has no tag.  The container carries the boxed id of the
\* project.
CreateExperiment(projs, dsets, nid, name, keys) ==
    IF ProjectNameExists(projs, name)
    THEN StoreEffect(projs, dsets, nid, Exc("DataServiceError"), 1, 0)
    ELSE StoreEffect(
             (nid :> Project(name, <<>>)) @@ projs,
             ((nid + 1) :> Dataset("data", nid, <<>>)) @@ dsets,
             nid + 2 + Len(keys),
             Ret([uuid |-> RLong(nid), md_uri |-> RLong(nid), name |-> name, keys |-> keys,
                  raw_dataset |-> [name |-> "data", url |-> PyInt(nid + 1),
                                   uuid |-> PyInt(nid + 1)]]),
             1, 3 + Len(keys))

\* A call that acts on projects and datasets ends with the effect eff
StoreCallEnds(op, arg, eff) ==
    /\ projects' = eff.projects
    /\ datasets' = eff.datasets
    /\ nextId' = eff.nextId
    /\ call' = Call(op, arg, eff.out, eff.lookups, eff.mutations)

ExperimentNames == {"exp", "screen", "pilot"}
ExperimentKeys == {<<>>, <<"stain">>, <<"stain", "cell">>}

\* create_experiment(name, author, date, keys)
CreateExperimentCall ==
    \E name \in ExperimentNames, keys \in ExperimentKeys :
        /\ Cardinality(DOMAIN projects) <= MaxObjects
        /\ StoreCallEnds("create_experiment", [name |-> name, keys |-> keys],
                         CreateExperiment(projects, datasets, nextId, name, keys))
        /\ unlinked' = IF Returned(call') THEN unlinked \o SavedTags(nextId, keys)
                       ELSE unlinked
        /\ UNCHANGED <<images, ws, hist, proc, given, adapter, builder>>

\* The store is empty, or holds the experiment exp with its datasets, with
\* or without a tag (annotation 5)
InitExp ==
    /\ \/ InitStore
       \/ /\ \E anns \in {<<>>, <<TagAnn(5, "stain")>>} :
                projects = (1 :> Project("exp", anns))
          /\ datasets = (2 :> Dataset("data", 1, <<>>)) @@ (3 :> Dataset("results", 1, <<>>))
          /\ images = (4 :> Image("img", 2, <<>>))
          /\ nextId = Cardinality(InitialIds) + 1
    /\ ws = EmptyMap
    /\ call = NoCall
    /\ hist = NoHist
    /\ proc = Idle
    /\ given = PyNone
    /\ adapter = Built
    /\ builder = NoBuilder
    /\ unlinked = <<>>

NextExp == CreateExperimentCall

SpecExp == InitExp /\ [][NextExp]_vars

\* C10: a create_experiment call whose name is the name of a project of the
\* remote store ends with an error and leaves the remote store as it was:
\* no project, dataset, link or tag is created.
C10_DuplicateNameRejected ==
    [][(/\ call'.op = "create_experiment"
        /\ \E id \in DOMAIN projects : projects[id].name = call'.arg.name)
       => (/\ Raised(call', "DataServiceError")
           /\ UNCHANGED <<projects, datasets, images, nextId, unlinked>>)]_vars

\* create_experiment was refused for the name of a project that an earlier
\* create_experiment of the behaviour created, saving a tag
C10_Witness ==
    /\ call.op = "create_experiment"
    /\ Raised(call, "DataServiceError")
    /\ \E id \in DOMAIN projects :
          /\ id > Cardinality(InitialIds)
          /\ projects[id].name = call.arg.name
          /\ \E i \in 1..Len(unlinked) : unlinked[i].id > id


(***************************************************************************)
(* The life of one service instance: __init__ connects, operations run on  *)
(* the built instance, __del__ closes the connection of the instance.      *)
(***************************************************************************)
\* no instance is constructed yet
Unbuilt == [life |-> "unbuilt", open |-> {}]

\* __init__(host, port, username, password): the gateway is created and
\* _omero_connect connects it; when connect() returns False it raises
\* DataServiceError and the half-built instance is left to __del__
Construct ==
    /\ adapter.life = "unbuilt"
    /\ \E rv \in BOOLEAN :
          IF rv
          THEN /\ adapter' = Built
               /\ call' = Call("__init__", PyNone, Ret(PyNone), 0, 0)
          ELSE /\ adapter' = [life |-> "failed", open |-> {}]
               /\ call' = Call("__init__", PyNone, Exc("DataServiceError"), 0, 0)
    /\ UNCHANGED <<projects, datasets, images, nextId, ws, hist, proc, given, builder, unlinked>>

\* Mutation of ClosedByDel: __del__ does not close the connection
ClosedByDel_Nothing(open) == open

\* The sessions open after self._conn.close(): the gateway of the instance
\* closes the session of the constructor, and no other
ClosedByDel(open) == open \ {ConstructionSession}

\* __del__(): self._conn.close()
Teardown ==
    /\ adapter.life \in {"built", "failed"}
    /\ adapter' = [life |-> "torn", open |-> ClosedByDel(adapter.open)]
    /\ call' = Call("__del__", PyNone, Ret(PyNone), 0, 0)
    /\ UNCHANGED <<projects, datasets, images, nextId, ws, hist, proc, given, builder, unlinked>>

\* import_data on the built instance
ImportOnBuilt == adapter.life = "built" /\ ImportDataCall

\* get_raw_data on the built instance
GetRawOnBuilt == adapter.life = "built" /\ GetRawDataCall

InitSession ==
    /\ InitRawStore
    /\ adapter = Unbuilt
    /\ builder = NoBuilder
    /\ unlinked = <<>>

NextSession ==
    Construct \/ ImportOnBuilt \/ GetRawOnBuilt \/ Teardown \/ ImportClientFinalized

SpecSession == InitSession /\ [][NextSession]_vars

\* The garbage collector runs __del__ on an instance, and on the client of
\* main_import, sooner or later
SpecSessionLive == SpecSession /\ WF_vars(Teardown) /\ WF_vars(ImportClientFinalized)

\* C11: an instance has at most one open remote session, the one its
\* constructor opened; no operation opens a further one.
C11_OneSession == adapter.open \subseteq {ConstructionSession}

GotImageWithoutDocument ==
    /\ call.op = "get_processed_data"
    /\ ObjectExists(images, call.arg)
    /\ \A i \in 1..Len(images[call.arg.n].anns) :
          IsFileAnn(images[call.arg.n].anns[i])
          => ~EndsWith(images[call.arg.n].anns[i].name, ".md.json")

\* C13: get_processed_data on an existing image that has no file attachment
\* whose name ends in .md.json raises DataServiceError and returns no
\* container.
C13_MissingDocumentRaises ==
    GotImageWithoutDocument => Raised(call, "DataServiceError")

\* get_processed_data was refused on an image whose only attachment is notes.txt
C13_Witness ==
    /\ GotImageWithoutDocument
    /\ Raised(call, "DataServiceError")
    /\ \E i \in 1..Len(images[call.arg.n].anns) : IsFileAnn(images[call.arg.n].anns[i])


\* C14: a read operation called with an id that no remote object has raises
\* the typed error of the service; here get_processed_data with the id of
\* no image does not return, neither None nor a container.
C14_AbsentIdRaises ==
    (call.op = "get_processed_data" /\ ~ObjectExists(images, call.arg))
    => Raised(call, "DataServiceError")


(***************************************************************************)
(* Experiments: update_experiment.  Besides tags, maps and files a project *)
(* can carry a comment annotation, whose value is a text like a tag's.     *)
(***************************************************************************)
CommentAnn(id, value) == [id |-> id, type |-> "comment", value |-> value]

\* value in keys, for a list of keys
InKeys(value, keys) == \E i \in 1..Len(keys) : keys[i] = value

\* The annotations update_experiment puts in to_delete: the tags whose value
\* is not in the keys
TagToDelete(ann, keys) == ann.type = "tag" /\ ~InKeys(ann.value, keys)

\* existing_tags of update_experiment as far as a key can equal one of its
\* items: the values of every annotation that is not put in to_delete and
\* whose getValue() is a text (the value of a map is a list, of a file None)
ExistingTags(anns, keys) ==
    {anns[i].value : i \in {j \in 1..Len(anns) :
                               /\ ~TagToDelete(anns[j], keys)
                               /\ anns[j].type \in {"tag", "comment"}}}

\* The tags update_experiment saves and links: one per key that is not in
\* existing_tags, in the order of the keys, with ids from nid on
AddedTags(new_keys, nid) == [i \in 1..Len(new_keys) |-> TagAnn(nid + i - 1, new_keys[i])]

\* update_experiment once the project is found, for the keys to add
UpdateExperimentOf(projs, dsets, nid, experiment, kept, new_keys) ==
    StoreEffect([projs EXCEPT ![experiment.md_uri.n] =
                    Project(WrapperSave(projs[experiment.md_uri.n], experiment.name).name,
                            kept \o AddedTags(new_keys, nid))],
                dsets, nid + Len(new_keys), Ret(PyNone), 2,
                1 + (IF Len(kept) < Len(projs[experiment.md_uri.n].anns) THEN 1 ELSE 0)
                  + 2 * Len(new_keys))

\* update_experiment(experiment): an absent project raises AttributeError on None
UpdateExperiment(projs, dsets, nid, experiment) ==
    IF ~ObjectExists(projs, experiment.md_uri)
    THEN StoreEffect(projs, dsets, nid, Exc("AttributeError"), 1, 0)
    ELSE UpdateExperimentOf(projs, dsets, nid, experiment,
             SelectSeq(projs[experiment.md_uri.n].anns,
                       LAMBDA ann : ~TagToDelete(ann, experiment.keys)),
             SelectSeq(experiment.keys,
                       LAMBDA key : key \notin ExistingTags(projs[experiment.md_uri.n].anns,
                                                            experiment.keys)))

\* update_experiment(experiment), for a project of the store or the absent project 9
UpdateExperimentCall ==
    \E id \in DOMAIN projects \cup {9}, name \in ExperimentNames, keys \in ExperimentKeys :
        /\ ~StoreFull
        /\ StoreCallEnds("update_experiment",
                         [md_uri |-> PyInt(id), name |-> name, keys |-> keys],
                         UpdateExperiment(projects, datasets, nextId,
                                          [md_uri |-> PyInt(id), name |-> name, keys |-> keys]))
        /\ UNCHANGED <<images, ws, hist, proc, given, adapter, builder, unlinked>>

\* The annotations of the experiment exp at the start (annotations 5 and 6)
InitialExperimentAnns ==
    { <<>>,
      <<TagAnn(5, "stain")>>,
      <<TagAnn(5, "cell"), TagAnn(6, "time")>>,
      <<CommentAnn(5, "stain")>>,
      <<MapAnn(5, << <<"stain", PyStr("DAPI")>> >>), TagAnn(6, "time")>>,
      <<FileAnn(5, "notes.txt", <<>>), TagAnn(6, "stain")>> }

InitUpd ==
    /\ \E anns \in InitialExperimentAnns : projects = (1 :> Project("exp", anns))
    /\ datasets = (2 :> Dataset("data", 1, <<>>)) @@ (3 :> Dataset("results", 1, <<>>))
    /\ images = (4 :> Image("img", 2, <<>>))
    /\ nextId = Cardinality(InitialIds) + 1
    /\ ws = EmptyMap
    /\ call = NoCall
    /\ hist = NoHist
    /\ proc = Idle
    /\ given = PyNone
    /\ adapter = Built
    /\ builder = NoBuilder
    /\ unlinked = <<>>

NextUpd == UpdateExperimentCall

SpecUpd == InitUpd /\ [][NextUpd]_vars

\* The values of the tag annotations of a project
TagValues(id) ==
    {projects[id].anns[i].value : i \in {j \in 1..Len(projects[id].anns) :
                                             projects[id].anns[j].type = "tag"}}

\* update_experiment returned without error
UpdatedExperiment == call.op = "update_experiment" /\ Returned(call)

\* C15: after update_experiment(e) returns, the project e.md_uri has the
\* name e.name and the values of its tags are exactly the keys of e.
C15_TagsEqualKeys ==
    UpdatedExperiment =>
        /\ projects[call.arg.md_uri.n].name = call.arg.name
        /\ TagValues(call.arg.md_uri.n) = {call.arg.keys[i] : i \in 1..Len(call.arg.keys)}


(***************************************************************************)
(* Datasets: create_dataset and update_dataset.  A Dataset container is a  *)
(* record uuid, md_uri and name.                                           *)
(***************************************************************************)
\* create_dataset(experiment, dataset_name): the dataset nid is saved and
\* linked to the project of the experiment
CreateDataset(projs, dsets, nid, experiment, dataset_name) ==
    StoreEffect(projs, (nid :> Dataset(dataset_name, experiment.md_uri.n, <<>>)) @@ dsets,
                nid + 1,
                Ret([uuid |-> PyInt(nid), md_uri |-> PyInt(nid), name |-> dataset_name]),
                0, 2)

\* update_dataset(dataset) once the remote dataset is found: the parameter
\* is bound to the remote object, which is given its own name and saved
UpdateDatasetOf(projs, dsets, nid, remote_id, remote) ==
    StoreEffect(projs, [dsets EXCEPT ![remote_id].name = remote.name], nid,
                Ret(PyNone), 1, 1)

\* update_dataset(dataset): an absent dataset raises AttributeError on None
UpdateDataset(projs, dsets, nid, dataset) ==
    IF ~ObjectExists(dsets, dataset.md_uri)
    THEN StoreEffect(projs, dsets, nid, Exc("AttributeError"), 1, 0)
    ELSE UpdateDatasetOf(projs, dsets, nid, dataset.md_uri.n, dsets[dataset.md_uri.n])

DatasetNames == {"data", "results", "masks"}

\* create_dataset(experiment, dataset_name) in the experiment 1
CreateDatasetCall ==
    \E dataset_name \in DatasetNames :
        /\ ~StoreFull
        /\ StoreCallEnds("create_dataset",
                         [experiment |-> PyInt(1), dataset_name |-> dataset_name],
                         CreateDataset(projects, datasets, nextId, [md_uri |-> PyInt(1)],
                                       dataset_name))
        /\ UNCHANGED <<images, ws, hist, proc, given, adapter, builder, unlinked>>

\* update_dataset(dataset), for a dataset of the store or the absent dataset 9
UpdateDatasetCall ==
    \E id \in DOMAIN datasets \cup {9}, name \in DatasetNames :
        /\ StoreCallEnds("update_dataset",
                         [uuid |-> PyInt(id), md_uri |-> PyInt(id), name |-> name],
                         UpdateDataset(projects, datasets, nextId,
                                       [uuid |-> PyInt(id), md_uri |-> PyInt(id),
                                        name |-> name]))
        /\ UNCHANGED <<images, ws, hist, proc, given, adapter, builder, unlinked>>

\* The experiment 1 with its raw dataset, with or without a processed dataset
InitDataset ==
    /\ projects = (1 :> Project("exp", <<>>))
    /\ datasets \in { (2 :> Dataset("data", 1, <<>>)),
                      (2 :> Dataset("data", 1, <<>>)) @@ (3 :> Dataset("results", 1, <<>>)) }
    /\ images = EmptyMap
    /\ nextId = Cardinality(InitialIds) + 1
    /\ ws = EmptyMap
    /\ call = NoCall
    /\ hist = NoHist
    /\ proc = Idle
    /\ given = PyNone
    /\ adapter = Built
    /\ builder = NoBuilder
    /\ unlinked = <<>>

NextDataset == CreateDatasetCall \/ UpdateDatasetCall

SpecDataset == InitDataset /\ [][NextDataset]_vars

\* C16: after update_dataset(d) returns, the remote dataset d.md_uri has the
\* name held by the container d.
C16_DatasetRenamed ==
    (call.op = "update_dataset" /\ Returned(call))
    => datasets[call.arg.md_uri.n].name = call.arg.name


(***************************************************************************)
(* Reading runs: get_run and get_dataset_runs, after create_run.           *)
(***************************************************************************)
\* The annotations linked to the objects of a collection
AnnotationsOf(objects) ==
    UNION {{objects[o].anns[i] : i \in 1..Len(objects[o].anns)} : o \in DOMAIN objects}

\* The annotations linked to any object of the store
AllAnnotations ==
    AnnotationsOf(projects) \cup AnnotationsOf(datasets) \cup AnnotationsOf(images)

\* What a call that only reads the store did: the workspace it leaves and
\* its outcome
ReadEffect(files, out, lookups) == [ws |-> files, out |-> out, lookups |-> lookups]

\* get_run after the download: the document is parsed and, when that
\* succeeds, the file is removed
GetRunParsed(downloaded, path, parsed) ==
    IF IsExc(parsed)
    THEN ReadEffect(downloaded, parsed, 1)
    ELSE ReadEffect(RemoveFile(downloaded, path), parsed, 1)

\* get_run once the file annotation is found: its content is downloaded to
\* run.md.json in the workspace
GetRunOf(downloaded, path) == GetRunParsed(downloaded, path, ParseRun(downloaded, path))

\* The numbers a text of the model can write
ParsedInts == 0..99

\* int(value): a number is itself, a text is the number it writes in
\* decimal digits and raises ValueError when it writes none, None raises
\* TypeError
PyIntOf(value) ==
    CASE value.k = "int" -> Ret(value.n)
      [] value.k = "str" ->
            IF \E n \in ParsedInts : ToString(n) = value.s
            THEN Ret(CHOOSE n \in ParsedInts : ToString(n) = value.s)
            ELSE Exc("ValueError")
      [] OTHER -> Exc("TypeError")

\* get_run once int(md_uri) gave the id: the id of no file annotation
\* raises AttributeError on None
GetRunOfId(anns, files, id) ==
    IF \A ann \in anns : ~(IsFileAnn(ann) /\ ann.id = id)
    THEN ReadEffect(files, Exc("AttributeError"), 1)
    ELSE GetRunOf((CodecPath :> (CHOOSE ann \in anns :
                                    IsFileAnn(ann) /\ ann.id = id).content) @@ files,
                  CodecPath)

\* get_run(md_uri): int(md_uri) raises before any remote call for a value
\* that is no number
GetRun(anns, files, md_uri) ==
    IF IsExc(PyIntOf(md_uri)) THEN ReadEffect(files, PyIntOf(md_uri), 0)
    ELSE GetRunOfId(anns, files, PyIntOf(md_uri).v)

\* The loop of get_dataset_runs from annotation i: every file attachment
\* whose name ends in md.json is downloaded under its name and parsed; the
\* first document that does not parse ends the call
RECURSIVE GetDatasetRunsFrom(_, _, _, _)
RECURSIVE GetDatasetRunsStep(_, _, _, _, _)
GetDatasetRunsFrom(files, anns, i, runs) ==
    IF i > Len(anns) THEN ReadEffect(files, Ret(PyList(runs)), 2)
    ELSE IF IsFileAnn(anns[i]) /\ EndsWith(anns[i].name, "md.json")
    THEN GetDatasetRunsStep((PathJoin(WorkspaceDir, anns[i].name) :> anns[i].content) @@ files,
                            anns, i, runs, PathJoin(WorkspaceDir, anns[i].name))
    ELSE GetDatasetRunsFrom(files, anns, i + 1, runs)

\* One download of get_dataset_runs: the file is parsed and its Run appended
GetDatasetRunsStep(downloaded, anns, i, runs, file_path) ==
    IF IsExc(ParseRun(downloaded, file_path))
    THEN ReadEffect(downloaded, ParseRun(downloaded, file_path), 2)
    ELSE GetDatasetRunsFrom(downloaded, anns, i + 1,
                            Append(runs, ParseRun(downloaded, file_path).v))

\* get_dataset_runs(dataset): an absent dataset raises AttributeError on None
GetDatasetRuns(dsets, files, dataset) ==
    IF ~ObjectExists(dsets, dataset.md_uri)
    THEN ReadEffect(files, Exc("AttributeError"), 1)
    ELSE GetDatasetRunsFrom(files, dsets[dataset.md_uri.n].anns, 1, <<>>)

\* A call that reads the store ends with the effect eff
ReadCallEnds(op, arg, eff) ==
    /\ ws' = eff.ws
    /\ call' = Call(op, arg, eff.out, eff.lookups, 0)

\* The values a caller passes to get_run: the id of a file annotation of the
\* store or the absent id 99, as a number or as its text, a text that is no
\* number, None
RunUris(ids) ==
    {PyInt(id) : id \in ids} \cup {PyStr(ToString(id)) : id \in ids} \cup {PyStr("run"), PyNone}

\* get_run(md_uri); getObject finds a file annotation whether it is linked
\* to an object or not
GetRunCall ==
    \E md_uri \in RunUris(FileAnnIds(datasets) \cup {99}) :
        /\ proc.pc = "idle"
        /\ ReadCallEnds("get_run", md_uri,
                        GetRun(AllAnnotations \cup {unlinked[i] : i \in 1..Len(unlinked)},
                               ws, md_uri))
        /\ UNCHANGED <<projects, datasets, images, nextId, hist, proc, given, adapter, builder, unlinked>>

\* get_dataset_runs(dataset), for the datasets 2 and 3 and the absent dataset 9
GetDatasetRunsCall ==
    \E id \in {2, 3, 9} :
        /\ proc.pc = "idle"
        /\ ReadCallEnds("get_dataset_runs", DatasetContainer(id),
                        GetDatasetRuns(datasets, ws, DatasetContainer(id)))
        /\ UNCHANGED <<projects, datasets, images, nextId, hist, proc, given, adapter, builder, unlinked>>

NextGetRun ==
    \/ CreateRunList
    \/ CreateRunWrite
    \/ CreateRunUpload
    \/ CreateRunUploadFails
    \/ GetRunCall
    \/ GetDatasetRunsCall

SpecGetRun == InitRun /\ [][NextGetRun]_vars

\* The workspace files the last call staged or downloaded
StagedPaths ==
    CASE call.op = "create_run" ->
            {PathJoin(WorkspaceDir, ann.name) :
                ann \in {a \in AllAnnotations : IsFileAnn(a) /\ PyInt(a.id) = call.out.v.uuid}}
      [] call.op = "get_run" -> {CodecPath}
      [] call.op = "get_dataset_runs" ->
            {PathJoin(WorkspaceDir, datasets[call.arg.md_uri.n].anns[i].name) :
                i \in {j \in 1..Len(datasets[call.arg.md_uri.n].anns) :
                          /\ IsFileAnn(datasets[call.arg.md_uri.n].anns[j])
                          /\ EndsWith(datasets[call.arg.md_uri.n].anns[j].name, "md.json")}}
      [] OTHER -> {}

\* C17: after create_run, get_run or get_dataset_runs returns without error,
\* the workspace holds none of the files the call staged or downloaded.
C17_WorkspaceCleaned ==
    (proc.pc = "idle" /\ Returned(call)) => StagedPaths \cap DOMAIN ws = {}

\* The ids create_run handed back in this behaviour: the file annotations
\* linked to a dataset after the start
CreatedRunIds == {id \in FileAnnIds(datasets) : id > Cardinality(InitialIds)}

\* C20: get_run(u), for the identity u that create_run returned, returns a
\* Run whose uuid is u.
C20_GetRunReturnsIdentity ==
    (call.op = "get_run" /\ Returned(call) /\ call.arg \in {PyInt(id) : id \in CreatedRunIds})
    => call.out.v.uuid = call.arg


\* The parameters recorded in the document _write_run left at the path
WrittenParameters(path) == Iterate(Subscript(JsonLoad(ws[path]), "parameters"))

\* C18: in the document _write_run produces, the value of every parameter is
\* text, also when the Run holds it as a number.
C18_ParameterValuesAreText ==
    call.op = "_write_run" =>
        \A i \in 1..Len(WrittenParameters(call.arg.md_uri.s).items) :
            Subscript(WrittenParameters(call.arg.md_uri.s).items[i], "value").k = "str"


(***************************************************************************)
(* Two service instances of one process run create_run on the dataset 3    *)
(* with their statements interleaved.  Each has its own Run and its own    *)
(* position; the remote store and the workspace directory are shared.      *)
(* proc maps an instance to the create_run call it runs or ran last.       *)
(***************************************************************************)
Adapters == {"a", "b"}

\* create_run of instance a, lines 984-996
CreateRunListBy(a) ==
    \E run_info \in RunInfos :
        /\ proc[a].pc \in {"idle", "returned", "raised"}
        /\ ~StoreFull
        /\ proc' = [proc EXCEPT ![a] =
                       [pc |-> "named", dataset |-> 3, run |-> run_info,
                        run_md_file_name |-> NewRunFileName(AnnFiles(datasets[3].anns))]]
        /\ UNCHANGED <<projects, datasets, images, nextId, ws, call, hist, given, adapter, builder, unlinked>>

\* The Run of create_run after lines 999-1001
StagedRun(run_info, dataset, run_md_file_name) ==
    [run_info EXCEPT !.processed_dataset = DatasetContainer(dataset),
                     !.uuid = PyStr(""),
                     !.md_uri = PyStr(PathJoin(WorkspaceDir, run_md_file_name))]

\* The rest of a file beyond what was written over its start: the bytes of
\* the text held from the offset
TokBytes(held, from) == [t |-> "bytes", of |-> held, from |-> from]

\* The number of bytes json.dump(metadata, outfile, indent=4) writes for the
\* tokens from i on, at the nesting depth: an opening bracket is followed by
\* a line break and the indentation of its members, a comma by a line break
\* and the indentation, a colon by a space; a closing bracket is on a line
\* of its own; an empty list or dict is [] or {}
RECURSIVE DumpedBytes(_, _, _)
DumpedBytes(toks, i, depth) ==
    IF i > Len(toks) THEN 0
    ELSE CASE toks[i].t = "string" -> Len(toks[i].s) + 2 + DumpedBytes(toks, i + 1, depth)
           [] toks[i].t = "number" ->
                 Len(ToString(toks[i].n)) + DumpedBytes(toks, i + 1, depth)
           [] toks[i].t = "null"   -> 4 + DumpedBytes(toks, i + 1, depth)
           [] toks[i].t = ":"      -> 2 + DumpedBytes(toks, i + 1, depth)
           [] toks[i].t = ","      -> 2 + 4 * depth + DumpedBytes(toks, i + 1, depth)
           [] toks[i].t \in {"[", "{"} ->
                 IF TokAt(toks, i + 1).t \in {"]", "}"}
                 THEN 2 + DumpedBytes(toks, i + 2, depth)
                 ELSE 2 + 4 * (depth + 1) + DumpedBytes(toks, i + 1, depth + 1)
           [] toks[i].t \in {"]", "}"} ->
                 2 + 4 * (depth - 1) + DumpedBytes(toks, i + 1, depth - 1)
           [] toks[i].t = "bytes"  ->
                 DumpedBytes(toks[i].of, 1, 0) - toks[i].from
                 + DumpedBytes(toks, i + 1, depth)

\* The size of a file in bytes
FileSize(content) == DumpedBytes(content, 1, 0)

\* What a file holds after content is written at offset 0 through a handle
\* opened before other content was written to the file: the bytes of the
\* content, followed by the bytes the file held beyond them
Overlay(held, content) ==
    IF FileSize(held) > FileSize(content)
    THEN Append(content, TokBytes(held, FileSize(content)))
    ELSE content

\* create_run of instance a, lines 998-1001 and open(md_uri, 'w') of
\* _write_json: the file is created or emptied, and the handle of a is on
\* the file at that path
CreateRunOpenBy(a) ==
    /\ proc[a].pc = "named"
    /\ proc' = [proc EXCEPT ![a] =
                   [pc |-> "opened", dataset |-> proc[a].dataset,
                    run |-> StagedRun(proc[a].run, proc[a].dataset,
                                      proc[a].run_md_file_name),
                    run_md_file_name |-> proc[a].run_md_file_name, linked |-> TRUE]]
    /\ ws' = [path \in DOMAIN ws \cup {PathJoin(WorkspaceDir, proc[a].run_md_file_name)} |->
                 IF path = PathJoin(WorkspaceDir, proc[a].run_md_file_name)
                 THEN <<>> ELSE ws[path]]
    /\ UNCHANGED <<projects, datasets, images, nextId, call, hist, given, adapter, builder, unlinked>>

\* create_run of instance a, json.dump and the end of the with block of
\* _write_json: the document is written through the handle, into the file
\* of the workspace unless that file was removed since a opened it
CreateRunWriteBy(a) ==
    /\ proc[a].pc = "opened"
    /\ proc' = [proc EXCEPT ![a].pc = "written"]
    /\ ws' = IF proc[a].linked
             THEN [ws EXCEPT ![proc[a].run.md_uri.s] =
                      Overlay(@, WriteRunFile(ws, proc[a].run)[proc[a].run.md_uri.s])]
             ELSE ws
    /\ UNCHANGED <<projects, datasets, images, nextId, call, hist, given, adapter, builder, unlinked>>

\* The path of the document instance a staged
StagedPath(a) == PathJoin(WorkspaceDir, proc[a].run_md_file_name)

\* The calls in progress after instance a removed its local file and
\* returned: a handle another instance holds on that file is on a file
\* that is no longer in the workspace
AfterRemove(a) ==
    [b \in Adapters |->
        IF b = a THEN [proc[a] EXCEPT !.pc = "returned"]
        ELSE IF proc[b].pc = "opened" /\ StagedPath(b) = StagedPath(a)
             THEN [proc[b] EXCEPT !.linked = FALSE]
             ELSE proc[b]]

\* create_run of instance a, line 1005: createFileAnnfromLocalFile reads
\* the local file and saves a file annotation that is linked to nothing
\* yet; it raises when the other instance has removed the file
CreateRunUploadBy(a) ==
    /\ proc[a].pc = "written"
    /\ IF StagedPath(a) \in DOMAIN ws
       THEN /\ unlinked' = Append(unlinked, FileAnn(nextId, proc[a].run_md_file_name,
                                                    ws[StagedPath(a)]))
            /\ nextId' = nextId + 1
            /\ proc' = [proc EXCEPT ![a] =
                           [pc |-> "uploaded", dataset |-> proc[a].dataset,
                            run |-> proc[a].run,
                            run_md_file_name |-> proc[a].run_md_file_name,
                            file_ann |-> nextId]]
            /\ UNCHANGED call
       ELSE /\ proc' = [proc EXCEPT ![a].pc = "raised"]
            /\ call' = Call("create_run", DatasetContainer(proc[a].dataset),
                            Exc("FileNotFoundError"), 2, 0)
            /\ UNCHANGED <<nextId, unlinked>>
    /\ UNCHANGED <<projects, datasets, images, ws, hist, given, adapter, builder>>

\* create_run of instance a, line 1006: the file annotation is linked to
\* the dataset
CreateRunLinkBy(a) ==
    /\ proc[a].pc = "uploaded"
    /\ datasets' = [datasets EXCEPT ![proc[a].dataset].anns =
                       @ \o SelectSeq(unlinked, LAMBDA ann : ann.id = proc[a].file_ann)]
    /\ unlinked' = SelectSeq(unlinked, LAMBDA ann : ann.id # proc[a].file_ann)
    /\ proc' = [proc EXCEPT ![a].pc = "attached"]
    /\ UNCHANGED <<projects, images, nextId, ws, call, hist, given, adapter, builder>>

\* create_run of instance a, lines 1008-1011: the Run takes the id of the
\* annotation and os.path.exists looks for the local file; without the file
\* the call returns
CreateRunExistsBy(a) ==
    /\ proc[a].pc = "attached"
    /\ proc' = [proc EXCEPT ![a].run = [@ EXCEPT !.uuid = PyInt(proc[a].file_ann),
                                                 !.md_uri = PyInt(proc[a].file_ann)],
                            ![a].pc = IF StagedPath(a) \in DOMAIN ws
                                      THEN "exists" ELSE "returned"]
    /\ call' = IF StagedPath(a) \in DOMAIN ws THEN call
               ELSE Call("create_run", DatasetContainer(proc[a].dataset),
                         Ret(proc'[a].run), 2, 2)
    /\ UNCHANGED <<projects, datasets, images, nextId, ws, hist, given, adapter, builder,
                   unlinked>>

\* create_run of instance a, lines 1012-1013: os.remove and the return; it
\* raises when the other instance removed the file after line 1011 found it
CreateRunRemoveBy(a) ==
    /\ proc[a].pc = "exists"
    /\ IF StagedPath(a) \in DOMAIN ws
       THEN /\ ws' = RemoveFile(ws, StagedPath(a))
            /\ proc' = AfterRemove(a)
            /\ call' = Call("create_run", DatasetContainer(proc[a].dataset),
                            Ret(proc[a].run), 2, 2)
       ELSE /\ proc' = [proc EXCEPT ![a].pc = "raised"]
            /\ call' = Call("create_run", DatasetContainer(proc[a].dataset),
                            Exc("FileNotFoundError"), 2, 2)
            /\ UNCHANGED ws
    /\ UNCHANGED <<projects, datasets, images, nextId, hist, given, adapter, builder,
                   unlinked>>

InitPair ==
    /\ projects = (1 :> Project("exp", <<>>))
    /\ \E anns \in InitialDatasetAnns :
          datasets = (2 :> Dataset("data", 1, <<>>)) @@ (3 :> Dataset("results", 1, anns))
    /\ images = (4 :> Image("img", 3, <<>>))
    /\ nextId = Cardinality(InitialIds) + 1
    /\ ws = EmptyMap
    /\ call = NoCall
    /\ hist = NoHist
    /\ proc = [a \in Adapters |-> Idle]
    /\ given = PyNone
    /\ adapter = Built
    /\ builder = NoBuilder
    /\ unlinked = <<>>

NextPair ==
    \E a \in Adapters :
        \/ CreateRunListBy(a)
        \/ CreateRunOpenBy(a)
        \/ CreateRunWriteBy(a)
        \/ CreateRunUploadBy(a)
        \/ CreateRunLinkBy(a)
        \/ CreateRunExistsBy(a)
        \/ CreateRunRemoveBy(a)

SpecPair == InitPair /\ [][NextPair]_vars

\* The name of the file annotation with the id
AttachedName(id) ==
    (CHOOSE ann \in AnnotationsOf(datasets) : IsFileAnn(ann) /\ ann.id = id).name

\* C19: when the create_run calls of two instances on the same dataset have
\* both returned, their two run documents are attached under two different
\* names, however their steps were interleaved.
C19_InterleavedNamesDiffer ==
    \A a, b \in Adapters :
        (a # b /\ proc[a].pc = "returned" /\ proc[b].pc = "returned")
        => AttachedName(proc[a].run.uuid.n) # AttachedName(proc[b].run.uuid.n)


(***************************************************************************)
(* update_raw_data.  A RawData container is a record md_uri, name and      *)
(* key_value_pairs (a dict of text values).  getValue() of a map           *)
(* annotation is the list of its (key, value) tuples, of a tag or comment  *)
(* its text, of a file annotation None.                                    *)
(***************************************************************************)
PyTuple(items) == [k |-> "tuple", items |-> items]

\* ann.getValue()[0] of a map annotation: its first (key, value) tuple
FirstPair(ann) == PyTuple(<<PyStr(ann.pairs[1][1]), ann.pairs[1][2]>>)

\* ann.getValue()[0] in keys, for the keys of a dict: the tuple is compared
\* with each key
FirstPairInKeys(ann, key_value_pairs) ==
    \E i \in 1..Len(key_value_pairs.pairs) :
        PyStr(key_value_pairs.pairs[i][1]) = FirstPair(ann)

\* Mutation of MapToDelete: no annotation is put in to_delete
MapToDelete_Never(ann, key_value_pairs) == FALSE

\* The annotations update_raw_data puts in to_delete: the map annotations
\* whose first tuple is not among the keys
MapToDelete(ann, key_value_pairs) ==
    ann.type = "map" /\ Len(ann.pairs) > 0 /\ ~FirstPairInKeys(ann, key_value_pairs)

\* The else branch of the loop of update_raw_data raises for every
\* annotation it takes: [0] of an empty list is IndexError and of None
\* TypeError; the first character of a text and a tuple are no key of the
\* pairs (the keys of the model are longer than one character)
KeptAnnRaises(ann) ==
    CASE ann.type = "map" /\ Len(ann.pairs) = 0 -> Exc("IndexError")
      [] ann.type = "file"                      -> Exc("TypeError")
      [] OTHER                                  -> Exc("KeyError")

\* The map annotations update_raw_data saves and links: one per key, in the
\* order of the keys, with ids from nid on
AddedMaps(pairs, nid) == [i \in 1..Len(pairs) |-> MapAnn(nid + i - 1, <<pairs[i]>>)]

\* update_raw_data once the image is saved (the parameter saved), for the annotations
\* kept out of to_delete: the first of them ends the call in the else
\* branch; with none, to_delete is deleted and every key is added
UpdateRawDataOf(imgs, files, nid, raw_data, saved, kept) ==
    IF Len(kept) > 0
    THEN Effect([imgs EXCEPT ![raw_data.md_uri.n] = saved], files, nid,
                KeptAnnRaises(kept[1]), 2, 1)
    ELSE Effect([imgs EXCEPT ![raw_data.md_uri.n] =
                    [saved EXCEPT !.anns = AddedMaps(raw_data.key_value_pairs.pairs, nid)]],
                files, nid + Len(raw_data.key_value_pairs.pairs), Ret(PyNone), 2,
                1 + (IF Len(saved.anns) > 0 THEN 1 ELSE 0)
                  + 2 * Len(raw_data.key_value_pairs.pairs))

\* update_raw_data(raw_data): an absent image raises AttributeError on None
UpdateRawData(imgs, files, nid, raw_data) ==
    IF ~ObjectExists(imgs, raw_data.md_uri)
    THEN Effect(imgs, files, nid, Exc("AttributeError"), 1, 0)
    ELSE UpdateRawDataOf(imgs, files, nid, raw_data,
             WrapperSave(imgs[raw_data.md_uri.n], raw_data.name),
             SelectSeq(imgs[raw_data.md_uri.n].anns,
                       LAMBDA ann : ~MapToDelete(ann, raw_data.key_value_pairs)))

\* The key-value pairs a caller passes to update_raw_data
UpdatedPairs ==
    { PyDict(<<>>),
      PyDict(<< <<"stain", PyStr("RFP")>> >>),
      PyDict(<< <<"cell", PyStr("hela")>>, <<"time", PyStr("t0")>> >>) }

\* The history after import_data returned the container of image nid: the
\* pairs the image was imported with are what was last written on it
RawDataImported(nid, key_value_pairs) ==
    IF Returned(call')
    THEN [hist EXCEPT !.data = (nid :> [key_value_pairs |-> key_value_pairs,
                                        imported |-> key_value_pairs,
                                        updated |-> FALSE]) @@ hist.data]
    ELSE hist

\* The history after update_raw_data(raw_data) ended
RawDataWritten(raw_data) ==
    IF Returned(call')
    THEN [hist EXCEPT !.data =
             (raw_data.md_uri.n :> [key_value_pairs |-> raw_data.key_value_pairs,
                                    imported |-> IF raw_data.md_uri.n \in DOMAIN hist.data
                                                 THEN hist.data[raw_data.md_uri.n].imported
                                                 ELSE PyNone,
                                    updated |-> TRUE]) @@ hist.data]
    ELSE hist

\* import_data(...) into the raw dataset 2, with the history kept
ImportRawDataCall ==
    \E format_ \in {"imagetiff", "czi"}, key_value_pairs \in ImportedPairs :
        /\ Cardinality(DOMAIN images) < MaxObjects
        /\ ImageCallEnds("import_data",
                         [raw_dataset |-> PyInt(2), data_path |-> "a.tif", name |-> "a",
                          format_ |-> format_, key_value_pairs |-> key_value_pairs],
                         ImportData(images, ws, nextId, 2, "a.tif", "a", format_,
                                    key_value_pairs))
        /\ hist' = RawDataImported(nextId, key_value_pairs)
        /\ adapter' = [adapter EXCEPT !.open = ImportSessions(@, nextId, format_)]
        /\ UNCHANGED <<projects, datasets, proc, given, builder, unlinked>>

\* update_raw_data(raw_data), for an image of the store or the absent image 9
UpdateRawDataCall ==
    \E id \in DOMAIN images \cup {9}, name \in {"b"}, key_value_pairs \in UpdatedPairs :
        /\ nextId < 11 + 2 * MaxObjects
        /\ ImageCallEnds("update_raw_data",
                         [md_uri |-> PyInt(id), name |-> name,
                          key_value_pairs |-> key_value_pairs],
                         UpdateRawData(images, ws, nextId,
                                       [md_uri |-> PyInt(id), name |-> name,
                                        key_value_pairs |-> key_value_pairs]))
        /\ hist' = RawDataWritten([md_uri |-> PyInt(id), name |-> name,
                                   key_value_pairs |-> key_value_pairs])
        /\ UNCHANGED <<projects, datasets, proc, given, adapter, builder, unlinked>>

\* The collector's step on the clients of main_import is left to SpecRaw and
\* SpecSession: it changes no annotation
NextRawUpd == ImportRawDataCall \/ UpdateRawDataCall \/ GetRawDataCall

SpecRawUpd == InitRaw /\ [][NextRawUpd]_vars

\* The images import_data created and update_raw_data then wrote
UpdatedImports ==
    {id \in DOMAIN hist.data : hist.data[id].imported # PyNone /\ hist.data[id].updated}

\* C21: update_raw_data on an image created by import_data returns without
\* error, and get_raw_data after it returns the value of the container for
\* every key of the container and no other key than an experiment tag with
\* the empty value.
C21_UpdateRawDataRoundTrip ==
    /\ (/\ call.op = "update_raw_data"
        /\ call.arg.md_uri.n \in DOMAIN hist.data
        /\ hist.data[call.arg.md_uri.n].imported # PyNone)
       => Returned(call)
    /\ (GotRawData /\ call.arg.n \in UpdatedImports)
       => LET kv == call.out.v.key_value_pairs
              written == hist.data[call.arg.n].key_value_pairs
          IN  /\ \A i \in 1..Len(written.pairs) :
                    Subscript(kv, written.pairs[i][1]) = written.pairs[i][2]
              /\ \A i \in 1..Len(kv.pairs) :
                    \/ HasKey(written, kv.pairs[i][1])
                    \/ /\ kv.pairs[i][1] \in ExperimentTags(call.arg.n)
                       /\ kv.pairs[i][2] = PyStr("")

\* get_raw_data returned cell and time, and stain only as an experiment
\* tag, for an image imported with the two pairs stain and cell and updated
\* to cell and time
C21_Witness ==
    /\ GotRawData
    /\ call.arg.n \in UpdatedImports
    /\ Len(hist.data[call.arg.n].imported.pairs) >= 2
    /\ HasKey(hist.data[call.arg.n].imported, "stain")
    /\ ~HasKey(hist.data[call.arg.n].key_value_pairs, "stain")
    /\ Subscript(call.out.v.key_value_pairs, "time") = PyStr("t0")
    /\ Subscript(call.out.v.key_value_pairs, "cell") = PyStr("hela")
    /\ "stain" \in ExperimentTags(call.arg.n)
    /\ Subscript(call.out.v.key_value_pairs, "stain") = PyStr("")


(***************************************************************************)
(* get_experiment after create_experiment and create_dataset.  A           *)
(* DatasetInfo is a record name, url and uuid.                             *)
(***************************************************************************)
DatasetInfo(name, url, uuid) == [name |-> name, url |-> url, uuid |-> uuid]

\* The dataset names of the model and of its callers, as text orders them
NamesInOrder == <<"alpha", "data", "masks", "results", "zeta">>

\* The place of a name in the order of text; a name the model does not
\* order comes last
NameRank(name) ==
    IF \E i \in 1..Len(NamesInOrder) : NamesInOrder[i] = name
    THEN CHOOSE i \in 1..Len(NamesInOrder) : NamesInOrder[i] = name
    ELSE Len(NamesInOrder) + 1

\* The datasets linked to the project
ChildrenOf(dsets, project) == {id \in DOMAIN dsets : dsets[id].project = project}

\* project.listChildren(): the ids of the datasets linked to the project,
\* ordered by name (the query of the gateway ends in order by c.child.name).
\* The order among datasets of one name is not fixed by the query: every
\* listing in the order of the names is one the call can yield
ListChildren(dsets, project) ==
    {children \in [1..Cardinality(ChildrenOf(dsets, project)) -> ChildrenOf(dsets, project)] :
        /\ \A i, j \in DOMAIN children : i # j => children[i] # children[j]
        /\ \A i, j \in DOMAIN children :
              i < j => NameRank(dsets[children[i]].name) <= NameRank(dsets[children[j]].name)}

\* The loop of get_experiment over the datasets of the project, from child
\* i: a dataset named 'data' becomes raw_dataset, any other is appended to
\* processed_datasets
RECURSIVE SortDatasets(_, _, _, _)
SortDatasets(container, dsets, children, i) ==
    IF i > Len(children) THEN container
    ELSE SortDatasets(
             IF dsets[children[i]].name = "data"
             THEN [container EXCEPT !.raw_dataset =
                      DatasetInfo("data", PyInt(children[i]), PyInt(children[i]))]
             ELSE [container EXCEPT !.processed_datasets =
                      Append(@, DatasetInfo(dsets[children[i]].name, PyInt(children[i]),
                                            PyInt(children[i])))],
             dsets, children, i + 1)

\* The keys get_experiment reads: the values of the tags of the project
ProjectKeys(anns) ==
    LET tags == SelectSeq(anns, LAMBDA ann : ann.type = "tag")
    IN  [i \in 1..Len(tags) |-> tags[i].value]

\* get_experiment(md_uri), when listChildren yields children: an absent
\* project raises DataServiceError
GetExperiment(projs, dsets, nid, md_uri, children) ==
    IF ~ObjectExists(projs, md_uri)
    THEN StoreEffect(projs, dsets, nid, Exc("DataServiceError"), 1, 0)
    ELSE StoreEffect(projs, dsets, nid,
             Ret(SortDatasets([uuid |-> md_uri, md_uri |-> md_uri,
                               name |-> projs[md_uri.n].name,
                               keys |-> ProjectKeys(projs[md_uri.n].anns),
                               raw_dataset |-> PyNone, processed_datasets |-> <<>>],
                              dsets, children, 1)),
             3, 0)

\* get_experiment(md_uri), for a project of the store or the absent project 9
GetExperimentCall ==
    \E id \in DOMAIN projects \cup {9} :
      \E children \in ListChildren(datasets, id) :
        /\ StoreCallEnds("get_experiment", PyInt(id),
                         GetExperiment(projects, datasets, nextId, PyInt(id), children))
        /\ UNCHANGED <<images, ws, hist, proc, given, adapter, builder, unlinked>>

\* create_dataset(experiment, dataset_name) in an experiment of the store
CreateDatasetInCall ==
    \E id \in DOMAIN projects, dataset_name \in DatasetNames :
        /\ Cardinality(DOMAIN datasets) <= MaxObjects
        /\ StoreCallEnds("create_dataset",
                         [experiment |-> PyInt(id), dataset_name |-> dataset_name],
                         CreateDataset(projects, datasets, nextId, [md_uri |-> PyInt(id)],
                                       dataset_name))
        /\ UNCHANGED <<images, ws, hist, proc, given, adapter, builder, unlinked>>

NextExpData == CreateExperimentCall \/ CreateDatasetInCall \/ GetExperimentCall

SpecExpData == InitExp /\ [][NextExpData]_vars

\* The dataset create_experiment created with the project: it is saved
\* right after the project
RawDatasetOf(project) == project + 1

\* The datasets create_dataset created in the project
CreatedDatasets(project) ==
    {id \in DOMAIN datasets : datasets[id].project = project /\ id # RawDatasetOf(project)}

\* get_experiment returned the container of a project
GotExperiment == call.op = "get_experiment" /\ Returned(call)

\* C22: get_experiment reports as raw_dataset the dataset create_experiment
\* created and lists in processed_datasets every dataset create_dataset
\* created in the experiment, each exactly once, whatever their names.
C22_RolesOfDatasets ==
    GotExperiment =>
        LET listed == call.out.v.processed_datasets
        IN  /\ call.out.v.raw_dataset # PyNone
            /\ call.out.v.raw_dataset.url = PyInt(RawDatasetOf(call.arg.n))
            /\ \A id \in CreatedDatasets(call.arg.n) :
                  Cardinality({i \in 1..Len(listed) : listed[i].url = PyInt(id)}) = 1


(***************************************************************************)
(* create_experiment and update_experiment through one instance, from the  *)
(* empty store or the store with the one experiment exp.                   *)
(***************************************************************************)
NextExpUpd == CreateExperimentCall \/ UpdateExperimentCall

SpecExpUpd == InitExp /\ [][NextExpUpd]_vars

\* C23: no two projects of the remote store have the same name, after any
\* sequence of create_experiment and update_experiment calls:
\* create_experiment refuses a name in use and update_experiment leaves
\* the name of the project as it was.
C23_ProjectNamesDistinct ==
    \A p \in DOMAIN projects, q \in DOMAIN projects :
        p # q => projects[p].name # projects[q].name

\* update_experiment returned for a container that carries the name of
\* another project of the store, both projects created by create_experiment
C23_Witness ==
    /\ call.op = "update_experiment"
    /\ Returned(call)
    /\ \E other \in DOMAIN projects :
          /\ other # call.arg.md_uri.n
          /\ projects[other].name = call.arg.name
          /\ projects[call.arg.md_uri.n].name # call.arg.name


(***************************************************************************)
(* The service builder.  OmeroMetadataServiceBuilder holds _instance, None *)
(* until a construction succeeds.  An instance is a record of the login it *)
(* was constructed with and of its serial, which tells two instances of    *)
(* the same login apart.                                                   *)
(***************************************************************************)
Logins == [host : {"omero.lab", "localhost"}, port : {4064, 14064},
           username : {"root", "guest"}, password : {"pw", "secret"}]

Instance(login, serial) == [login |-> login, serial |-> serial]

\* the session the constructor of the instance of that serial opens
InstanceSession(serial) == [by |-> "__init__", n |-> serial]

\* Mutation of NeedsInstance: an instance is also constructed when the
\* login differs from the login of the instance held
NeedsInstance_PerLogin(held, login) == held = PyNone \/ held.login # login

\* not self._instance: the service defines no __bool__ and no __len__, so
\* an instance is true and only None is not
NeedsInstance(held, login) == held = PyNone

\* __call__(host, port, username, password) when an instance is constructed:
\* connect() returning rv, False ends the call with DataServiceError and
\* leaves _instance as it was
BuilderConstructs(b, sessions, login, rv) ==
    IF rv
    THEN [builder |-> [instance |-> Instance(login, b.made), made |-> b.made + 1],
          adapter |-> [life |-> "built", open |-> sessions \cup {InstanceSession(b.made)}],
          out |-> Ret(Instance(login, b.made))]
    ELSE [builder |-> [b EXCEPT !.made = b.made + 1],
          adapter |-> [life |-> "failed", open |-> sessions],
          out |-> Exc("DataServiceError")]

\* __call__(host, port, username, password)
BuilderCall(b, a, login, rv) ==
    IF NeedsInstance(b.instance, login)
    THEN BuilderConstructs(b, a.open, login, rv)
    ELSE [builder |-> b, adapter |-> a, out |-> Ret(b.instance)]

\* A call of the builder ends with the effect eff
BuilderCallEnds(login, eff) ==
    /\ builder' = eff.builder
    /\ adapter' = eff.adapter
    /\ call' = Call("__call__", login, eff.out, 0, 0)

\* builder(host, port, username, password), the server accepting the
\* connection or not
BuildCall ==
    \E login \in Logins, rv \in BOOLEAN :
        /\ builder.made <= MaxObjects
        /\ BuilderCallEnds(login, BuilderCall(builder, adapter, login, rv))
        /\ UNCHANGED <<projects, datasets, images, nextId, ws, hist, proc, given, unlinked>>

\* A new builder, no instance, the store of InitRaw
InitBuilder ==
    /\ InitRawStore
    /\ adapter = Unbuilt
    /\ builder = NoBuilder
    /\ unlinked = <<>>

NextBuilder == BuildCall

SpecBuilder == InitBuilder /\ [][NextBuilder]_vars

\* C24: once the builder holds an instance, every call returns that
\* instance, whatever host, port, username and password it passes, and
\* leaves the instance held and the open sessions as they were.
C24_OneInstance ==
    [][builder.instance # PyNone
       => /\ call'.out = Ret(builder.instance)
          /\ builder'.instance = builder.instance
          /\ adapter'.open = adapter.open]_vars

\* The builder returned the instance it holds to a call that passed another
\* host, port, username and password than the instance was constructed
\* with, and the one session of that instance is open
C24_Witness ==
    /\ call.op = "__call__"
    /\ builder.instance # PyNone
    /\ call.out = Ret(builder.instance)
    /\ call.arg.host # builder.instance.login.host
    /\ call.arg.port # builder.instance.login.port
    /\ call.arg.username # builder.instance.login.username
    /\ call.arg.password # builder.instance.login.password
    /\ adapter.open = {InstanceSession(builder.instance.serial)}

=============================================================================
